---- MODULE Spec2Model ----
(***************************************************************************)
(* Model of the Cognitive Fusion core of ATeNNbolt:                        *)
(*   - AtomSpace (include/bolt/cognitive/atomspace.hpp): the handle map,   *)
(*     the name index, the handle counter and the store mutex, driven by   *)
(*     concurrent caller threads; the atoms' own mutexes and the accessors *)
(*     getName, getOutgoing and toString that take them;                   *)
(*   - Agent / AgentOrchestrator                                           *)
(*     (include/bolt/cognitive/agent_orchestrator.hpp): the registry, the  *)
(*     per-agent message queues and their mutexes, Agent::cycle, runCycle, *)
(*     start/stop and the execution units of the two strategies;           *)
(*   - the relevance and attention tables of CognitiveFusionReactor        *)
(*     (include/bolt/cognitive/fusion_reactor.hpp) with its two mutexes;   *)
(*   - EmbeddingSpace (include/bolt/cognitive/tensor_embedding.hpp),       *)
(*     AtomSpace::querySimilar (src/bolt/cognitive/atomspace.cpp) and the  *)
(*     passes of the EmbeddingLearner's network                            *)
(*     (include/bolt/cognitive/neural_learnability.hpp).                   *)
(* A std::lock_guard is modelled by a lock step (guarded by the mutex      *)
(* being free) followed by the statements of the critical section; the     *)
(* mutex is released by the last statement of the section.                 *)
(***************************************************************************)
EXTENDS Integers, Sequences, FiniteSets, TLC

\* ---------------------------------------------------------------- bounds
NumThreads == 2
MaxAtoms == 3
NumAgents == 2
MaxReg == 2
MaxMsgs == 2
MaxEmb == 2
MaxConcepts == 2
MaxStored == 3
MaxTrain == 1
MaxVectors == 1

Threads == 1..NumThreads
NoThread == 0
\* the std::thread objects start() can create: one per registry entry
Units == (NumThreads + 1)..(NumThreads + MaxReg)
AllThreads == Threads \cup Units
Names == {"x", "y"}
Embeddings == {<<>>, <<1, 0>>}

VARIABLES
    atoms_,        \* AtomSpace::atoms_ : handle -> atom object
    name_index_,   \* AtomSpace::name_index_ : name -> sequence of handles
    next_handle_,  \* AtomSpace::next_handle_
    mutex_,        \* AtomSpace::mutex_ : owner thread or NoThread
    spc,           \* position of each caller thread inside a store operation
    sarg,          \* arguments of the store operation a thread is running
    sret,          \* the operation that returned last and its result, until the next call
    issued,        \* history: every atom ever constructed, in creation order
    epoch,         \* history: Len(issued) when clear() last completed
    atom_mutex     \* Atom::mutex_ of every atom object (by uid): owner or NoThread

storeVars == <<atoms_, name_index_, next_handle_, mutex_, spc, sarg, sret,
               issued, epoch, atom_mutex>>

VARIABLES
    agents_,        \* AgentOrchestrator::agents_ : the registry, in order
    reg_mutex,      \* AgentOrchestrator::mutex_ : owner thread or NoThread
    message_queue_, \* Agent::message_queue_ of every agent object
    state_,         \* Agent::state_ of every agent object
    agent_mutex,    \* Agent::mutex_ of every agent object
    apc,            \* position of each caller thread inside an agent operation
    aframe,         \* arguments and locals of that operation
    aret,           \* result of the getNextMessage, sendMessage or broadcast
                    \* call that returned in the last step, if any
    received,       \* history: messages pushed on each queue, in order
    taken           \* history: messages getNextMessage returned, in order

agentVars == <<agents_, reg_mutex, message_queue_, state_, agent_mutex, apc,
               aframe, aret, received, taken>>

VARIABLES
    running_,       \* AgentOrchestrator::running_
    agent_threads_, \* AgentOrchestrator::agent_threads_ : the units, in order
    strategy_       \* AgentOrchestrator::strategy_

orchVars == <<running_, agent_threads_, strategy_>>

VARIABLES
    relevance_scores_, \* CognitiveFusionReactor::relevance_scores_
    relevance_mutex_,  \* CognitiveFusionReactor::relevance_mutex_ : owner
    attention_bank_,   \* CognitiveFusionReactor::attention_bank_
    attention_mutex_,  \* CognitiveFusionReactor::attention_mutex_ : owner
    embeddings_,       \* EmbeddingSpace::embeddings_ of embedding_space_
    network_,          \* EmbeddingLearner::network_ : the passes made so far
    rpc,               \* position of each caller thread inside a Facade call
    rframe,            \* arguments and locals of that call
    rret               \* the Facade call that returned last and its result

relVars == <<relevance_scores_, relevance_mutex_, attention_bank_,
             attention_mutex_, embeddings_, network_, rpc, rframe, rret>>

vars == <<storeVars, agentVars, orchVars, relVars>>

\* ------------------------------------------------------------ AtomSpace
\* atoms_[handle] = atom : std::unordered_map::operator[] assignment
Put(f, k, v) == [x \in (DOMAIN f) \cup {k} |-> IF x = k THEN v ELSE f[x]]

EmptyMap == [x \in {} |-> 0]

\* name_index_ after clear(): no name has an entry
EmptyIndex == [n \in Names |-> <<>>]

\* value stored into next_handle_ by clear()
ClearedHandleKept == next_handle_
ClearedHandle == 0

\* ++next_handle_ : the value returned (and stored into next_handle_).
\* AtomHandle is uint64_t; MaxAtoms keeps the counter far below 2^64.
generateHandleNoIncrement == next_handle_
generateHandle == next_handle_ + 1

\* name_index_[name].push_back(handle)
PushBackReplace(v, h) == <<h>>
PushBack(v, h) == Append(v, h)

\* std::lock_guard<std::mutex> lock(mutex_) can be entered by thread t
LockFreeAlways(t) == TRUE
LockFree(t) == mutex_ = NoThread

NoArg == [name |-> "x", emb |-> <<>>, out |-> <<>>, h |-> 0]
NoRet == [op |-> "none", t |-> NoThread, h |-> 0, uid |-> 0, seq |-> <<>>, n |-> 0]

\* handles of the Nodes called `name` that the store holds
ExistingNodes(name) ==
    {h \in DOMAIN atoms_ : atoms_[h].kind = "Node" /\ atoms_[h].name = name}

\* the dedup test of addNode: only the first handle listed under the name
DedupHit(name) ==
    /\ name_index_[name] # <<>>
    /\ name_index_[name][1] \in DOMAIN atoms_
    /\ atoms_[name_index_[name][1]].kind = "Node"

\* handles an outside caller may pass in an outgoing list (atoms it holds)
Outgoings == {<<>>} \cup {<<u>> : u \in 1..(IF issued = <<>> THEN 0 ELSE 1)}

\* a thread calls an operation and enters its lock_guard
Enter(t, label, arg) ==
    /\ spc[t] = "idle"
    /\ LockFree(t)
    /\ mutex_' = t
    /\ spc' = [spc EXCEPT ![t] = label]
    /\ sarg' = [sarg EXCEPT ![t] = arg]
    /\ sret' = NoRet
    /\ UNCHANGED <<atoms_, name_index_, next_handle_, issued, epoch, atom_mutex>>

\* a return that leaves the store mutex with the thread
LeaveLocked(t, ret) ==
    /\ UNCHANGED mutex_
    /\ UNCHANGED atom_mutex
    /\ spc' = [spc EXCEPT ![t] = "idle"]
    /\ sret' = [ret EXCEPT !.t = t]
    /\ sarg' = [sarg EXCEPT ![t] = IF rpc[t] = "idle" THEN NoArg
                                    ELSE [NoArg EXCEPT !.h = ret.h]]

\* the operation returns: the lock_guard is destroyed; a Facade call that
\* made the call keeps the returned atom
Leave(t, ret) ==
    /\ mutex_' = NoThread
    /\ UNCHANGED atom_mutex
    /\ spc' = [spc EXCEPT ![t] = "idle"]
    /\ sret' = [ret EXCEPT !.t = t]
    /\ sarg' = [sarg EXCEPT ![t] = IF rpc[t] = "idle" THEN NoArg
                                    ELSE [NoArg EXCEPT !.h = ret.h]]

\* addNode is called with one of the names and one of the embeddings embs
addNodeCallWith(t, names, embs) ==
    /\ UNCHANGED <<agentVars, orchVars, relVars>>
    /\ \E name \in names, emb \in embs :
           /\ DedupHit(name) \/ Len(issued) < MaxAtoms
           /\ Enter(t, "addNode", [NoArg EXCEPT !.name = name, !.emb = emb])

addNodeCall(t) == addNodeCallWith(t, Names, Embeddings)

addNode(t) ==
    /\ UNCHANGED <<agentVars, orchVars, relVars>>
    /\ /\ spc[t] = "addNode"
       /\ LET name == sarg[t].name IN
          IF DedupHit(name)
          THEN /\ Leave(t, [NoRet EXCEPT !.op = "addNode",
                                         !.h = name_index_[name][1],
                                         !.uid = atoms_[name_index_[name][1]].uid])
               /\ UNCHANGED <<atoms_, name_index_, next_handle_, issued, epoch, atom_mutex>>
          ELSE /\ Len(issued) < MaxAtoms
               /\ LET handle == generateHandle
                      node == [uid |-> Len(issued) + 1, kind |-> "Node",
                               name |-> name, emb |-> sarg[t].emb, out |-> <<>>]
                  IN /\ next_handle_' = handle
                     /\ atoms_' = Put(atoms_, handle, node)
                     /\ name_index_' = [name_index_ EXCEPT
                                           ![name] = PushBack(@, handle)]
                     /\ issued' = Append(issued, [h |-> handle, ep |-> epoch])
                     /\ Leave(t, [NoRet EXCEPT !.op = "addNode", !.h = handle,
                                               !.uid = node.uid, !.n = 1])
                     /\ UNCHANGED epoch

\* addLink is called with one of the types
addLinkCallWith(t, types) ==
    /\ UNCHANGED <<agentVars, orchVars, relVars>>
    /\ \E type \in types, out \in Outgoings :
           /\ Len(issued) < MaxAtoms
           /\ Enter(t, "addLink", [NoArg EXCEPT !.name = type, !.out = out])

addLinkCall(t) == addLinkCallWith(t, Names)

addLink(t) ==
    /\ UNCHANGED <<agentVars, orchVars, relVars>>
    /\ /\ spc[t] = "addLink"
       /\ Len(issued) < MaxAtoms
       /\ LET handle == generateHandle
              link == [uid |-> Len(issued) + 1, kind |-> "Link",
                       name |-> sarg[t].name, emb |-> <<>>, out |-> sarg[t].out]
          IN /\ next_handle_' = handle
             /\ atoms_' = Put(atoms_, handle, link)
             /\ name_index_' = [name_index_ EXCEPT
                                   ![sarg[t].name] = PushBack(@, handle)]
             /\ issued' = Append(issued, [h |-> handle, ep |-> epoch])
             /\ Leave(t, [NoRet EXCEPT !.op = "addLink", !.h = handle,
                                       !.uid = link.uid, !.n = 1])
             /\ UNCHANGED epoch

\* getAtom is called with one of the handles
getAtomCallOn(t, handles) ==
    /\ UNCHANGED <<agentVars, orchVars, relVars>>
    /\ \E h \in handles : Enter(t, "getAtom", [NoArg EXCEPT !.h = h])

getAtomCall(t) == getAtomCallOn(t, 1..MaxAtoms)

getAtom(t) ==
    /\ UNCHANGED <<agentVars, orchVars, relVars>>
    /\ /\ spc[t] = "getAtom"
       /\ Leave(t, [NoRet EXCEPT !.op = "getAtom", !.h = sarg[t].h,
                       !.uid = IF sarg[t].h \in DOMAIN atoms_
                               THEN atoms_[sarg[t].h].uid ELSE 0])
       /\ UNCHANGED <<atoms_, name_index_, next_handle_, issued, epoch, atom_mutex>>

getAtomsByNameCall(t) ==
    /\ UNCHANGED <<agentVars, orchVars, relVars>>
    /\ \E name \in Names :
           Enter(t, "getAtomsByName", [NoArg EXCEPT !.name = name])

\* atoms_.at(handle) throws std::out_of_range for a handle that is not a key
getAtomsByName(t) ==
    /\ UNCHANGED <<agentVars, orchVars, relVars>>
    /\ /\ spc[t] = "getAtomsByName"
       /\ LET idx == name_index_[sarg[t].name] IN
          IF \A i \in 1..Len(idx) : idx[i] \in DOMAIN atoms_
          THEN Leave(t, [NoRet EXCEPT !.op = "getAtomsByName",
                            !.seq = [i \in 1..Len(idx) |-> atoms_[idx[i]].uid],
                            !.n = Len(idx)])
          ELSE Leave(t, [NoRet EXCEPT !.op = "out_of_range"])
       /\ UNCHANGED <<atoms_, name_index_, next_handle_, issued, epoch, atom_mutex>>

getAllAtomsCall(t) ==
    /\ UNCHANGED <<agentVars, orchVars, relVars>>
    /\ Enter(t, "getAllAtoms", NoArg)

getAllAtoms(t) ==
    /\ UNCHANGED <<agentVars, orchVars, relVars>>
    /\ /\ spc[t] = "getAllAtoms"
       /\ Leave(t, [NoRet EXCEPT !.op = "getAllAtoms",
                                 !.n = Cardinality(DOMAIN atoms_)])
       /\ UNCHANGED <<atoms_, name_index_, next_handle_, issued, epoch, atom_mutex>>

sizeCall(t) ==
    /\ UNCHANGED <<agentVars, orchVars, relVars>>
    /\ Enter(t, "size", NoArg)

size(t) ==
    /\ UNCHANGED <<agentVars, orchVars, relVars>>
    /\ /\ spc[t] = "size"
       /\ Leave(t, [NoRet EXCEPT !.op = "size", !.n = Cardinality(DOMAIN atoms_)])
       /\ UNCHANGED <<atoms_, name_index_, next_handle_, issued, epoch, atom_mutex>>

clearCall(t) ==
    /\ UNCHANGED <<agentVars, orchVars, relVars>>
    /\ Enter(t, "clear_atoms", NoArg)

\* clear(): the three statements of the critical section, one step each
clear(t) ==
    /\ UNCHANGED <<agentVars, orchVars, relVars>>
    /\ \/ /\ spc[t] = "clear_atoms"
          /\ atoms_' = EmptyMap
          /\ spc' = [spc EXCEPT ![t] = "clear_index"]
          /\ UNCHANGED <<name_index_, next_handle_, mutex_, sarg, sret,
                         issued, epoch, atom_mutex>>
       \/ /\ spc[t] = "clear_index"
          /\ name_index_' = EmptyIndex
          /\ spc' = [spc EXCEPT ![t] = "clear_handle"]
          /\ UNCHANGED <<atoms_, next_handle_, mutex_, sarg, sret,
                         issued, epoch, atom_mutex>>
       \/ /\ spc[t] = "clear_handle"
          /\ next_handle_' = ClearedHandle
          /\ epoch' = Len(issued)
          /\ Leave(t, [NoRet EXCEPT !.op = "clear"])
          /\ UNCHANGED <<atoms_, name_index_, issued>>

\* ---- Atom accessors (atomspace.hpp): each takes the atom's own mutex_ ----

\* std::lock_guard<std::mutex> lock(mutex_) of atom object uid can be entered
AtomLockFree(uid) == atom_mutex[uid] = NoThread

\* outgoing_ of a Link of the store, as atom objects: the atom the store held
\* under each handle when the Link was constructed (it has a smaller uid);
\* 0 stands for an atom the store has dropped, whose mutex nobody contends
OutgoingSelf(link) == [i \in 1..Len(link.out) |-> link.uid]
OutgoingAtoms(link) ==
    [i \in 1..Len(link.out) |->
        IF link.out[i] \in DOMAIN atoms_ /\ atoms_[link.out[i]].uid < link.uid
        THEN atoms_[link.out[i]].uid
        ELSE 0]

\* an accessor that only reads under the atom's mutex returns in one step
AccessorReturn(t, op, h) ==
    /\ spc[t] = "idle"
    /\ rpc[t] = "idle"
    /\ AtomLockFree(atoms_[h].uid)
    /\ sret' = [NoRet EXCEPT !.op = op, !.t = t, !.h = h, !.uid = atoms_[h].uid]
    /\ UNCHANGED <<atoms_, name_index_, next_handle_, mutex_, spc, sarg,
                   issued, epoch, atom_mutex>>

\* Atom::getName() on an atom of the store
getName(t) ==
    /\ UNCHANGED <<agentVars, orchVars, relVars>>
    /\ \E h \in DOMAIN atoms_ : AccessorReturn(t, "getName", h)

\* Link::getOutgoing() on a Link of the store
getOutgoing(t) ==
    /\ UNCHANGED <<agentVars, orchVars, relVars>>
    /\ \E h \in DOMAIN atoms_ :
           /\ atoms_[h].kind = "Link"
           /\ AccessorReturn(t, "getOutgoing", h)

\* toString() is called: Node::toString() reads name_ without a lock and
\* returns; Link::toString() enters the lock_guard of the Link
toStringCall(t) ==
    /\ UNCHANGED <<agentVars, orchVars, relVars>>
    /\ \E h \in DOMAIN atoms_ :
           /\ spc[t] = "idle"
           /\ rpc[t] = "idle"
           /\ IF atoms_[h].kind = "Node"
              THEN /\ sret' = [NoRet EXCEPT !.op = "toString", !.t = t, !.h = h,
                                            !.uid = atoms_[h].uid]
                   /\ UNCHANGED <<spc, sarg, atom_mutex>>
              ELSE /\ AtomLockFree(atoms_[h].uid)
                   /\ atom_mutex' = [atom_mutex EXCEPT ![atoms_[h].uid] = t]
                   /\ spc' = [spc EXCEPT ![t] = "toString"]
                   /\ sarg' = [sarg EXCEPT ![t] =
                                  [NoArg EXCEPT !.h = atoms_[h].uid,
                                                !.out = OutgoingAtoms(atoms_[h])]]
                   /\ sret' = NoRet
           /\ UNCHANGED <<atoms_, name_index_, next_handle_, mutex_, issued,
                          epoch>>

\* Link::toString(): one outgoing_[i]->getName() per step, with the Link's
\* mutex_ held; the lock_guard is left after the last one.
\* sarg[t].h is the Link object, sarg[t].out the objects still to be named.
toString(t) ==
    /\ UNCHANGED <<agentVars, orchVars, relVars>>
    /\ spc[t] = "toString"
    /\ IF sarg[t].out = <<>>
       THEN /\ atom_mutex' = [atom_mutex EXCEPT ![sarg[t].h] = NoThread]
            /\ spc' = [spc EXCEPT ![t] = "idle"]
            /\ sarg' = [sarg EXCEPT ![t] = NoArg]
            /\ sret' = [NoRet EXCEPT !.op = "toString", !.t = t,
                                     !.uid = sarg[t].h]
       ELSE /\ IF Head(sarg[t].out) = 0 THEN TRUE
               ELSE AtomLockFree(Head(sarg[t].out))
            /\ sarg' = [sarg EXCEPT ![t].out = Tail(@)]
            /\ sret' = NoRet
            /\ UNCHANGED <<spc, atom_mutex>>
    /\ UNCHANGED <<atoms_, name_index_, next_handle_, mutex_, issued, epoch>>

SNext ==
    \E t \in Threads :
        \/ addNodeCall(t) \/ addNode(t)
        \/ addLinkCall(t) \/ addLink(t)
        \/ getAtomCall(t) \/ getAtom(t)
        \/ getAtomsByNameCall(t) \/ getAtomsByName(t)
        \/ getAllAtomsCall(t) \/ getAllAtoms(t)
        \/ sizeCall(t) \/ size(t)
        \/ clearCall(t) \/ clear(t)

\* ------------------------------------------- Agent and AgentOrchestrator
\* A method whose whole body is one lock_guard section is one step, enabled
\* when its mutex is free.  getNextMessage keeps the agent mutex between its
\* front() and its pop(); sendMessage holds no lock between getAgent and
\* receiveMessage; broadcast keeps the registry mutex over its whole loop.
Agents == 1..NumAgents
NoAgent == 0

\* Agent::id_ of the agent objects the callers construct
AgentId(a) == IF a = 1 THEN "a" ELSE "b"

\* enum class AgentState
AgentStates == {"IDLE", "THINKING", "ACTING", "LEARNING", "COMMUNICATING",
                "SUSPENDED", "TERMINATED"}
SetStateInputs == {"IDLE", "SUSPENDED"}

Ids == {"a", "b", "c"}

\* struct AgentMessage, as its constructor builds it
AgentMessage(f, t, typ, c) ==
    [from |-> f, to |-> t, type |-> typ, content |-> c, timestamp |-> 0]

Messages == {AgentMessage("a", "b", "test", "m1"),
             AgentMessage("b", "c", "test", "m2")}
NoMsg == AgentMessage("", "", "", "")

NoCount == [a \in Agents |-> 0]
\* locals of a call: a, msg, i, cnt as before; end is the end of a range-for
\* fixed when the loop starts, log lists the callbacks the cycle() in progress
\* has invoked, ctx names the loop that called cycle(), rcpt is the recipient
\* found by a sendMessage made from a callback, snap is the registry as it
\* was when the range-for of startParallel began
NoFrame == [a |-> NoAgent, msg |-> NoMsg, i |-> 0, cnt |-> NoCount,
            end |-> 0, log |-> <<>>, ctx |-> "", rcpt |-> NoAgent,
            snap |-> <<>>]
NoARet == [op |-> "none", t |-> NoThread, a |-> NoAgent, msg |-> NoMsg,
           err |-> "", b |-> FALSE, cnt |-> NoCount, log |-> <<>>]

\* message_queue_.push(message)
QueuePushFront(q, m) == <<m>> \o q
QueuePush(q, m) == Append(q, m)

\* message_queue_.empty()
QueueEmptyOffByOne(q) == Len(q) <= 1
QueueEmpty(q) == q = <<>>

\* the scan of getAgent: the first registered agent with the id, or nullptr
FirstRegistered(agent_id) ==
    IF agents_ = <<>> THEN NoAgent ELSE agents_[1]
getAgentResult(agent_id) ==
    IF \E i \in 1..Len(agents_) : AgentId(agents_[i]) = agent_id
    THEN agents_[CHOOSE i \in 1..Len(agents_) :
                    /\ AgentId(agents_[i]) = agent_id
                    /\ \A j \in 1..(i - 1) : AgentId(agents_[j]) # agent_id]
    ELSE NoAgent

\* the test of the broadcast loop: agent->getId() != message.from
BroadcastToAll(a, message) == TRUE
BroadcastDelivers(a, message) == AgentId(a) # message.from

\* std::lock_guard on Agent::mutex_ / AgentOrchestrator::mutex_ can be entered
AgentLockFree(a) == agent_mutex[a] = NoThread
RegistryLockFree == reg_mutex = NoThread

\* messages already pushed plus those the running calls will still push
RECURSIVE SumOver(_, _)
SumOver(f, S) ==
    IF S = {} THEN 0
    ELSE LET x == CHOOSE y \in S : TRUE IN f[x] + SumOver(f, S \ {x})
Pending(t) ==
    IF apc[t] \in {"send_receive", "cb_getAgent", "cb_receive"} THEN 1
    ELSE IF apc[t] = "broadcast"
         THEN Cardinality({j \in aframe[t].i..Len(agents_) :
                              BroadcastDelivers(agents_[j], aframe[t].msg)})
         ELSE 0
Handed ==
    SumOver([a \in Agents |-> Len(received[a])], Agents)
    + SumOver([t \in AllThreads |-> Pending(t)], AllThreads)

\* the call of thread t returns
Return(t, ret) ==
    /\ apc' = [apc EXCEPT ![t] = "idle"]
    /\ aframe' = [aframe EXCEPT ![t] = NoFrame]
    /\ aret' = IF ret.op = "none" THEN ret ELSE [ret EXCEPT !.t = t]

\* body of Agent::receiveMessage on agent a
Deliver(a, message) ==
    /\ message_queue_' = [message_queue_ EXCEPT
                             ![a] = QueuePush(@, message)]
    /\ received' = [received EXCEPT ![a] = Append(@, message)]

receiveMessage(t) ==
    /\ UNCHANGED <<storeVars, orchVars, relVars>>
    /\ \E a \in Agents, m \in Messages :
           /\ apc[t] = "idle"
           /\ Handed < MaxMsgs
           /\ AgentLockFree(a)
           /\ Deliver(a, m)
           /\ Return(t, NoARet)
           /\ UNCHANGED <<agents_, reg_mutex, agent_mutex, state_, taken>>

\* getNextMessage: lock, empty test and front(); then pop() and return
getNextMessage(t) ==
    /\ UNCHANGED <<storeVars, orchVars, relVars>>
    /\ \/ \E a \in Agents :
             /\ apc[t] = "idle"
             /\ AgentLockFree(a)
             /\ IF QueueEmpty(message_queue_[a])
                THEN /\ Return(t, [NoARet EXCEPT !.op = "getNextMessage",
                                      !.a = a, !.err = "No messages available"])
                     /\ UNCHANGED agent_mutex
                ELSE /\ agent_mutex' = [agent_mutex EXCEPT ![a] = t]
                     /\ apc' = [apc EXCEPT ![t] = "gnm_pop"]
                     /\ aframe' = [aframe EXCEPT ![t] =
                                      [NoFrame EXCEPT !.a = a,
                                          !.msg = Head(message_queue_[a])]]
                     /\ aret' = NoARet
             /\ UNCHANGED <<agents_, reg_mutex, message_queue_, state_,
                            received, taken>>
       \/ /\ apc[t] = "gnm_pop"
          /\ LET a == aframe[t].a IN
             /\ message_queue_' = [message_queue_ EXCEPT
                                      ![a] = IF @ = <<>> THEN @ ELSE Tail(@)]
             /\ taken' = [taken EXCEPT ![a] = Append(@, aframe[t].msg)]
             /\ agent_mutex' = [agent_mutex EXCEPT ![a] = NoThread]
             /\ Return(t, [NoARet EXCEPT !.op = "getNextMessage", !.a = a,
                                         !.msg = aframe[t].msg])
          /\ UNCHANGED <<agents_, reg_mutex, state_, received>>

\* processMessages: while (hasMessages()) { getNextMessage(); onMessage() }.
\* hasMessages and getNextMessage lock the agent's mutex each on its own;
\* CognitiveAgent::onMessage locks it again in addKnowledge. The frame's log
\* lists the messages handed to onMessage (history). The exception of
\* getNextMessage leaves processMessages.
processMessages(t) ==
    /\ UNCHANGED <<storeVars, orchVars, relVars>>
    /\ UNCHANGED <<agents_, reg_mutex, agent_mutex, state_, received>>
    /\ \/ \E a \in Agents :
             /\ apc[t] = "idle"
             /\ apc' = [apc EXCEPT ![t] = "pm_hasMessages"]
             /\ aframe' = [aframe EXCEPT ![t] = [NoFrame EXCEPT !.a = a]]
             /\ aret' = NoARet
             /\ UNCHANGED <<message_queue_, taken>>
       \/ /\ apc[t] = "pm_hasMessages"
          /\ AgentLockFree(aframe[t].a)
          /\ IF QueueEmpty(message_queue_[aframe[t].a])
             THEN Return(t, [NoARet EXCEPT !.op = "processMessages",
                                !.a = aframe[t].a, !.log = aframe[t].log])
             ELSE /\ apc' = [apc EXCEPT ![t] = "pm_getNextMessage"]
                  /\ aret' = NoARet
                  /\ UNCHANGED aframe
          /\ UNCHANGED <<message_queue_, taken>>
       \/ /\ apc[t] = "pm_getNextMessage"
          /\ LET a == aframe[t].a IN
             /\ AgentLockFree(a)
             /\ IF QueueEmpty(message_queue_[a])
                THEN /\ Return(t, [NoARet EXCEPT !.op = "processMessages",
                                      !.a = a, !.log = aframe[t].log,
                                      !.err = "No messages available"])
                     /\ UNCHANGED <<message_queue_, taken>>
                ELSE /\ message_queue_' =
                            [message_queue_ EXCEPT ![a] = Tail(@)]
                     /\ taken' = [taken EXCEPT
                                     ![a] = Append(@, Head(message_queue_[a]))]
                     /\ aframe' = [aframe EXCEPT
                                      ![t].msg = Head(message_queue_[a])]
                     /\ apc' = [apc EXCEPT ![t] = "pm_onMessage"]
                     /\ aret' = NoARet
       \/ /\ apc[t] = "pm_onMessage"
          /\ AgentLockFree(aframe[t].a)
          /\ aframe' = [aframe EXCEPT ![t].log = Append(@, aframe[t].msg),
                                      ![t].msg = NoMsg]
          /\ apc' = [apc EXCEPT ![t] = "pm_hasMessages"]
          /\ aret' = NoARet
          /\ UNCHANGED <<message_queue_, taken>>

setState(t) ==
    /\ UNCHANGED <<storeVars, orchVars, relVars>>
    /\ \E a \in Agents, st \in SetStateInputs :
           /\ apc[t] = "idle"
           /\ AgentLockFree(a)
           /\ state_[a] # st
           /\ state_' = [state_ EXCEPT ![a] = st]
           /\ Return(t, NoARet)
           /\ UNCHANGED <<agents_, reg_mutex, agent_mutex, message_queue_,
                          received, taken>>

registerAgent(t) ==
    /\ UNCHANGED <<storeVars, orchVars, relVars>>
    /\ \E a \in Agents :
           /\ apc[t] = "idle"
           /\ Len(agents_) < MaxReg
           /\ RegistryLockFree
           /\ agents_' = Append(agents_, a)
           /\ Return(t, NoARet)
           /\ UNCHANGED <<reg_mutex, agent_mutex, message_queue_, state_,
                          received, taken>>

\* an erase that removes the first entry with the id only
EraseFirst(v, agent_id) ==
    IF \E i \in 1..Len(v) : AgentId(v[i]) = agent_id
    THEN LET i == CHOOSE k \in 1..Len(v) :
                      /\ AgentId(v[k]) = agent_id
                      /\ \A j \in 1..(k - 1) : AgentId(v[j]) # agent_id
         IN SubSeq(v, 1, i - 1) \o SubSeq(v, i + 1, Len(v))
    ELSE v

\* agents_.erase(std::remove_if(..., id matches), agents_.end()): every
\* entry with the id goes, the others keep their order
EraseRemoveIf(v, agent_id) == SelectSeq(v, LAMBDA x : AgentId(x) # agent_id)

unregisterAgent(t) ==
    /\ UNCHANGED <<storeVars, orchVars, relVars>>
    /\ \E agent_id \in Ids :
           /\ apc[t] = "idle"
           /\ RegistryLockFree
           /\ agents_' = EraseRemoveIf(agents_, agent_id)
           /\ Return(t, NoARet)
           /\ UNCHANGED <<reg_mutex, agent_mutex, message_queue_, state_,
                          received, taken>>

\* sendMessage: getAgent(message.to), then recipient->receiveMessage(message)
sendMessage(t) ==
    /\ UNCHANGED <<storeVars, orchVars, relVars>>
    /\ \/ \E m \in Messages :
             /\ apc[t] = "idle"
             /\ RegistryLockFree
             /\ LET recipient == getAgentResult(m.to) IN
                IF recipient # NoAgent
                THEN /\ Handed < MaxMsgs
                     /\ apc' = [apc EXCEPT ![t] = "send_receive"]
                     /\ aframe' = [aframe EXCEPT ![t] =
                                      [NoFrame EXCEPT !.a = recipient, !.msg = m]]
                     /\ aret' = NoARet
                ELSE Return(t, [NoARet EXCEPT !.op = "sendMessage", !.msg = m])
             /\ UNCHANGED <<agents_, reg_mutex, agent_mutex, message_queue_,
                            state_, received, taken>>
       \/ /\ apc[t] = "send_receive"
          /\ AgentLockFree(aframe[t].a)
          /\ Deliver(aframe[t].a, aframe[t].msg)
          /\ Return(t, [NoARet EXCEPT !.op = "sendMessage", !.a = aframe[t].a,
                                      !.msg = aframe[t].msg])
          /\ UNCHANGED <<agents_, reg_mutex, agent_mutex, state_, taken>>

\* broadcast: the loop over agents_ under the registry lock
broadcast(t) ==
    /\ UNCHANGED <<storeVars, orchVars, relVars>>
    /\ \/ \E m \in Messages :
             /\ apc[t] = "idle"
             /\ RegistryLockFree
             /\ Handed + Cardinality({j \in 1..Len(agents_) :
                                         BroadcastDelivers(agents_[j], m)})
                   <= MaxMsgs
             /\ reg_mutex' = t
             /\ apc' = [apc EXCEPT ![t] = "broadcast"]
             /\ aframe' = [aframe EXCEPT ![t] =
                              [NoFrame EXCEPT !.msg = m, !.i = 1]]
             /\ aret' = NoARet
             /\ UNCHANGED <<agents_, agent_mutex, message_queue_, state_,
                            received, taken>>
       \/ /\ apc[t] = "broadcast"
          /\ LET i == aframe[t].i IN
             IF i > Len(agents_)
             THEN /\ reg_mutex' = NoThread
                  /\ Return(t, [NoARet EXCEPT !.op = "broadcast",
                                   !.msg = aframe[t].msg, !.cnt = aframe[t].cnt])
                  /\ UNCHANGED <<message_queue_, received>>
             ELSE /\ IF BroadcastDelivers(agents_[i], aframe[t].msg)
                     THEN /\ AgentLockFree(agents_[i])
                          /\ Deliver(agents_[i], aframe[t].msg)
                          /\ aframe' = [aframe EXCEPT ![t].i = i + 1,
                                           ![t].cnt[agents_[i]] = @ + 1]
                     ELSE /\ aframe' = [aframe EXCEPT ![t].i = i + 1]
                          /\ UNCHANGED <<message_queue_, received>>
                  /\ aret' = NoARet
                  /\ UNCHANGED <<reg_mutex, apc>>
          /\ UNCHANGED <<agents_, agent_mutex, state_, taken>>

\* ------------------------------------------------- Agent::cycle, runCycle
\* the states a caller passes to setState while agents are being cycled
CallerStates == {"IDLE", "LEARNING", "SUSPENDED", "TERMINATED"}

\* Agent::setState called by a caller thread with one of CallerStates
callerSetState(t) ==
    /\ UNCHANGED <<storeVars, orchVars, relVars>>
    /\ \E a \in Agents, st \in CallerStates :
           /\ apc[t] = "idle"
           /\ AgentLockFree(a)
           /\ state_[a] # st
           /\ state_' = [state_ EXCEPT ![a] = st]
           /\ Return(t, NoARet)
           /\ UNCHANGED <<agents_, reg_mutex, agent_mutex, message_queue_,
                          received, taken>>

\* the two getState() reads of the test that guards agent->cycle()
SecondCheckAlways(a) == TRUE
FirstCheck(a) == state_[a] # "SUSPENDED"
SecondCheck(a) == state_[a] # "TERMINATED"

\* CognitiveAgent::think / act call the installed callback once
ThinkSkipped(log) == log
ThinkInvoked(log) == Append(log, "think")
ActInvoked(log) == Append(log, "act")

\* the messages the act callback of agent a may send, as the demo's do
CallbackMessages(a) == {m \in Messages : m.from = AgentId(a)}

\* where the caller of cycle() continues when it returns
AfterCycle(t) == IF aframe[t].ctx = "runCycle" THEN "rc_loop" ELSE "par_loop"

\* Agent::cycle on the agent aframe[t].a: the three setState calls
cycle(t) ==
    /\ UNCHANGED <<storeVars, orchVars, relVars>>
    /\ UNCHANGED <<agents_, reg_mutex, agent_mutex, message_queue_, received,
                   taken>>
    /\ LET a == aframe[t].a IN
       \/ /\ apc[t] = "cycle_thinking"
          /\ AgentLockFree(a)
          /\ state_' = [state_ EXCEPT ![a] = "THINKING"]
          /\ apc' = [apc EXCEPT ![t] = "cycle_think"]
          /\ aframe' = [aframe EXCEPT ![t].log = <<>>]
          /\ aret' = NoARet
       \/ /\ apc[t] = "cycle_acting"
          /\ AgentLockFree(a)
          /\ state_' = [state_ EXCEPT ![a] = "ACTING"]
          /\ apc' = [apc EXCEPT ![t] = "cycle_act"]
          /\ aret' = NoARet
          /\ UNCHANGED aframe
       \/ /\ apc[t] = "cycle_idle"
          /\ AgentLockFree(a)
          /\ state_' = [state_ EXCEPT ![a] = "IDLE"]
          /\ apc' = [apc EXCEPT ![t] = AfterCycle(t)]
          /\ aframe' = [aframe EXCEPT ![t] =
                 IF aframe[t].ctx = "runCycle"
                 THEN [@ EXCEPT !.i = @ + 1, !.cnt[a] = @ + 1, !.a = NoAgent,
                                !.log = <<>>, !.msg = NoMsg, !.rcpt = NoAgent]
                 ELSE [@ EXCEPT !.log = <<>>, !.msg = NoMsg, !.rcpt = NoAgent]]
          /\ aret' = [NoARet EXCEPT !.op = "cycle", !.t = t, !.a = a,
                                    !.log = aframe[t].log]

\* CognitiveAgent::think: the think callback runs and returns
think(t) ==
    /\ UNCHANGED <<storeVars, orchVars, relVars>>
    /\ apc[t] = "cycle_think"
    /\ aframe' = [aframe EXCEPT ![t].log = ThinkInvoked(@)]
    /\ apc' = [apc EXCEPT ![t] = "cycle_acting"]
    /\ aret' = NoARet
    /\ UNCHANGED <<agents_, reg_mutex, agent_mutex, message_queue_, state_,
                   received, taken>>

\* CognitiveAgent::act: the act callback returns, or calls sendMessage with
\* one of the messages msgs first
actSending(t, msgs) ==
    /\ UNCHANGED <<storeVars, orchVars, relVars>>
    /\ apc[t] = "cycle_act"
    /\ \/ /\ aframe' = [aframe EXCEPT ![t].log = ActInvoked(@)]
          /\ apc' = [apc EXCEPT ![t] = "cycle_idle"]
       \/ \E m \in msgs :
             /\ Handed < MaxMsgs
             /\ aframe' = [aframe EXCEPT ![t].log = ActInvoked(@),
                                         ![t].msg = m]
             /\ apc' = [apc EXCEPT ![t] = "cb_getAgent"]
    /\ aret' = NoARet
    /\ UNCHANGED <<agents_, reg_mutex, agent_mutex, message_queue_, state_,
                   received, taken>>

\* act with callbacks that may send, as the demo's do
act(t) == actSending(t, CallbackMessages(aframe[t].a))

\* act with callbacks that do not call the orchestrator
actQuiet(t) == actSending(t, {})

\* sendMessage called by the act callback.  getAgent locks the registry
\* mutex: when the calling thread holds it already (it is inside runCycle)
\* the lock() is undefined; the thread blocks for ever, or lock() throws
\* std::system_error, which leaves act, cycle and runCycle (whose lock_guard
\* unlocks) and ends the caller's call or, in a unit, the process.
callbackSendMessage(t) ==
    /\ UNCHANGED <<storeVars, orchVars, relVars>>
    /\ \/ /\ apc[t] = "cb_getAgent"
          /\ RegistryLockFree
          /\ LET recipient == getAgentResult(aframe[t].msg.to) IN
             IF recipient # NoAgent
             THEN /\ apc' = [apc EXCEPT ![t] = "cb_receive"]
                  /\ aframe' = [aframe EXCEPT ![t].rcpt = recipient]
             ELSE /\ apc' = [apc EXCEPT ![t] = "cycle_idle"]
                  /\ UNCHANGED aframe
          /\ aret' = NoARet
          /\ UNCHANGED <<agents_, reg_mutex, agent_mutex, message_queue_,
                         state_, received, taken>>
       \/ /\ apc[t] = "cb_getAgent"
          /\ reg_mutex = t
          /\ \/ /\ apc' = [apc EXCEPT ![t] = "cb_deadlock"]
                /\ aret' = NoARet
                /\ UNCHANGED <<aframe, reg_mutex>>
             \/ /\ t \in Threads
                /\ reg_mutex' = NoThread
                /\ Return(t, [NoARet EXCEPT !.op = "runCycle",
                                 !.cnt = aframe[t].cnt,
                                 !.err = "resource_deadlock_would_occur"])
             \/ /\ t \in Units
                /\ apc' = [apc EXCEPT ![t] = "fault"]
                /\ aret' = NoARet
                /\ UNCHANGED <<aframe, reg_mutex>>
          /\ UNCHANGED <<agents_, agent_mutex, message_queue_, state_,
                         received, taken>>
       \/ /\ apc[t] = "cb_receive"
          /\ AgentLockFree(aframe[t].rcpt)
          /\ Deliver(aframe[t].rcpt, aframe[t].msg)
          /\ apc' = [apc EXCEPT ![t] = "cycle_idle"]
          /\ aret' = [NoARet EXCEPT !.op = "sendMessage", !.t = t,
                         !.a = aframe[t].rcpt, !.msg = aframe[t].msg]
          /\ UNCHANGED <<aframe, agents_, reg_mutex, agent_mutex, state_,
                         taken>>

\* the pass has finished: the lock_guard of runCycle unlocks
EndOfPass(t) ==
    /\ reg_mutex' = NoThread
    /\ IF t \in Threads
       THEN Return(t, [NoARet EXCEPT !.op = "runCycle", !.cnt = aframe[t].cnt])
       ELSE /\ apc' = [apc EXCEPT ![t] = "seq_loop"]
            /\ aframe' = [aframe EXCEPT ![t] = NoFrame]
            /\ aret' = [NoARet EXCEPT !.op = "runCycle", !.t = t,
                                      !.cnt = aframe[t].cnt]

\* runCycle: the loop over agents_ under the registry lock
runCycle(t) ==
    /\ UNCHANGED <<storeVars, orchVars, relVars>>
    /\ UNCHANGED <<agents_, agent_mutex, message_queue_, state_, received,
                   taken>>
    /\ \/ /\ apc[t] = IF t \in Threads THEN "idle" ELSE "seq_runCycle"
          /\ RegistryLockFree
          /\ reg_mutex' = t
          /\ apc' = [apc EXCEPT ![t] = "rc_loop"]
          /\ aframe' = [aframe EXCEPT ![t] =
                           [NoFrame EXCEPT !.i = 1, !.ctx = "runCycle"]]
          /\ aret' = NoARet
       \/ /\ apc[t] = "rc_loop"
          /\ LET i == aframe[t].i IN
             IF i > Len(agents_)
             THEN EndOfPass(t)
             ELSE /\ AgentLockFree(agents_[i])
                  /\ IF FirstCheck(agents_[i])
                     THEN /\ apc' = [apc EXCEPT ![t] = "rc_check2"]
                          /\ aframe' = [aframe EXCEPT ![t].a = agents_[i]]
                     ELSE /\ aframe' = [aframe EXCEPT ![t].i = i + 1]
                          /\ UNCHANGED apc
                  /\ aret' = NoARet
                  /\ UNCHANGED reg_mutex
       \/ /\ apc[t] = "rc_check2"
          /\ AgentLockFree(aframe[t].a)
          /\ IF SecondCheck(aframe[t].a)
             THEN /\ apc' = [apc EXCEPT ![t] = "cycle_thinking"]
                  /\ UNCHANGED aframe
             ELSE /\ apc' = [apc EXCEPT ![t] = "rc_loop"]
                  /\ aframe' = [aframe EXCEPT ![t].i = @ + 1, ![t].a = NoAgent]
          /\ aret' = NoARet
          /\ UNCHANGED reg_mutex

\* ------------------------------------------- start, stop and the units
\* the thread that owns the orchestrator: it starts and stops it, and its
\* destructor calls stop()
Owner == 1

\* enum class Strategy, the two values start() acts on
Strategies == {"SEQUENTIAL", "PARALLEL"}

\* the std::thread object emplace_back constructs: the first one not in use
NewUnit ==
    CHOOSE u \in Units :
        /\ apc[u] = "unspawned"
        /\ \A v \in Units : apc[v] = "unspawned" => u <= v

\* the element the range-for of startParallel copies at position i.  The
\* loop holds no lock: once the registry has been changed since the loop
\* began its iterators are invalid and the read is undefined; it yields the
\* element that is there now or a null pointer (a moved-from or freed slot).
SlotRead(t) ==
    LET i == aframe[t].i IN
    IF agents_ = aframe[t].snap
    THEN {agents_[i]}
    ELSE {NoAgent} \cup (IF i <= Len(agents_) THEN {agents_[i]} ELSE {})

\* thread.join(): returns when the unit has left its loop
HasExitedAlways(u) == TRUE
HasExited(u) == apc[u] = "exited"

\* agent_threads_.emplace_back(lambda): unit u starts at `label`
Spawn(t, u, a, label, next) ==
    /\ agent_threads_' = Append(agent_threads_, u)
    /\ apc' = [apc EXCEPT ![u] = label, ![t] = next]
    /\ aframe' = [aframe EXCEPT
                     ![u] = [NoFrame EXCEPT !.a = a,
                                !.ctx = IF label = "par_loop" THEN "parallel"
                                        ELSE ""],
                     ![t] = IF next = "idle" THEN NoFrame
                            ELSE [@ EXCEPT !.i = @ + 1]]

\* start: the test of running_, then running_ = true and the strategy
start(t) ==
    /\ UNCHANGED <<storeVars, relVars>>
    /\ UNCHANGED <<agents_, reg_mutex, agent_mutex, message_queue_, state_,
                   received, taken>>
    /\ \/ /\ apc[t] = "idle"
          /\ IF running_
             THEN Return(t, [NoARet EXCEPT !.op = "start"])
             ELSE /\ apc' = [apc EXCEPT ![t] = "start_set"]
                  /\ aret' = NoARet
                  /\ UNCHANGED aframe
          /\ UNCHANGED orchVars
       \/ /\ apc[t] = "start_set"
          /\ running_' = TRUE
          /\ IF strategy_ = "PARALLEL"
             THEN /\ apc' = [apc EXCEPT ![t] = "start_parallel"]
                  /\ aframe' = [aframe EXCEPT ![t] =
                                   [NoFrame EXCEPT !.i = 1, !.snap = agents_]]
             ELSE /\ apc' = [apc EXCEPT ![t] = "start_sequential"]
                  /\ UNCHANGED aframe
          /\ aret' = NoARet
          /\ UNCHANGED <<agent_threads_, strategy_>>

\* startParallel: one unit per element the loop reads, without the lock
startParallel(t) ==
    /\ UNCHANGED <<storeVars, relVars>>
    /\ UNCHANGED <<agents_, reg_mutex, agent_mutex, message_queue_, state_,
                   received, taken, running_, strategy_>>
    /\ apc[t] = "start_parallel"
    /\ IF aframe[t].i > Len(aframe[t].snap)
       THEN /\ Return(t, [NoARet EXCEPT !.op = "start", !.b = TRUE])
            /\ UNCHANGED agent_threads_
       ELSE /\ \E a \in SlotRead(t) :
                  Spawn(t, NewUnit, a, "par_loop", "start_parallel")
            /\ aret' = NoARet

\* startSequential: one unit that repeats runCycle
startSequential(t) ==
    /\ UNCHANGED <<storeVars, relVars>>
    /\ UNCHANGED <<agents_, reg_mutex, agent_mutex, message_queue_, state_,
                   received, taken, running_, strategy_>>
    /\ apc[t] = "start_sequential"
    /\ Spawn(t, NewUnit, NoAgent, "seq_loop", "idle")
    /\ aret' = [NoARet EXCEPT !.op = "start", !.t = t, !.b = TRUE]

\* stop: running_ = false, then join every unit, then clear the vector
stop(t) ==
    /\ UNCHANGED <<storeVars, relVars>>
    /\ UNCHANGED <<agents_, reg_mutex, agent_mutex, message_queue_, state_,
                   received, taken, strategy_>>
    /\ \/ /\ apc[t] = "idle"
          /\ running_' = FALSE
          /\ apc' = [apc EXCEPT ![t] = "stop_join"]
          /\ aframe' = [aframe EXCEPT ![t] =
                           [NoFrame EXCEPT !.i = 1,
                                           !.end = Len(agent_threads_)]]
          /\ aret' = NoARet
          /\ UNCHANGED agent_threads_
       \/ /\ apc[t] = "stop_join"
          /\ aframe[t].i <= aframe[t].end
          /\ HasExited(agent_threads_[aframe[t].i])
          /\ aframe' = [aframe EXCEPT ![t].i = @ + 1]
          /\ aret' = NoARet
          /\ UNCHANGED <<apc, agent_threads_, running_>>
       \/ /\ apc[t] = "stop_join"
          /\ aframe[t].i > aframe[t].end
          /\ agent_threads_' = <<>>
          /\ apc' = [x \in AllThreads |->
                        IF x = t THEN "idle"
                        ELSE IF apc[x] = "exited" THEN "unspawned"
                        ELSE apc[x]]
          /\ aframe' = [x \in AllThreads |->
                           IF x = t \/ apc[x] = "exited" THEN NoFrame
                           ELSE aframe[x]]
          /\ aret' = [NoARet EXCEPT !.op = "stop", !.t = t,
                                    !.b = aframe[t].end > 0]
          /\ UNCHANGED running_

setStrategy(t) ==
    /\ UNCHANGED <<storeVars, relVars, agentVars>>
    /\ \E st \in Strategies :
           /\ apc[t] = "idle"
           /\ strategy_ # st
           /\ strategy_' = st
           /\ UNCHANGED <<running_, agent_threads_>>

\* the unit of one agent under PARALLEL: while (running_) { the two reads
\* of the state, cycle(), sleep }
agentThread(u) ==
    /\ UNCHANGED <<storeVars, orchVars, relVars>>
    /\ UNCHANGED <<agents_, reg_mutex, agent_mutex, message_queue_, state_,
                   received, taken, aframe>>
    /\ aret' = NoARet
    /\ LET a == aframe[u].a IN
       \/ /\ apc[u] = "par_loop"
          /\ apc' = [apc EXCEPT ![u] =
                        IF ~running_ THEN "exited"
                        ELSE IF a = NoAgent THEN "fault"
                        ELSE "par_check1"]
       \/ /\ apc[u] = "par_check1"
          /\ AgentLockFree(a)
          /\ apc' = [apc EXCEPT ![u] =
                        IF FirstCheck(a) THEN "par_check2" ELSE "par_loop"]
       \/ /\ apc[u] = "par_check2"
          /\ AgentLockFree(a)
          /\ apc' = [apc EXCEPT ![u] =
                        IF SecondCheck(a) THEN "cycle_thinking"
                        ELSE "par_loop"]

\* the unit under SEQUENTIAL: while (running_) { runCycle(); sleep }
sequentialThread(u) ==
    /\ UNCHANGED <<storeVars, orchVars, relVars>>
    /\ UNCHANGED <<agents_, reg_mutex, agent_mutex, message_queue_, state_,
                   received, taken, aframe>>
    /\ aret' = NoARet
    /\ apc[u] = "seq_loop"
    /\ apc' = [apc EXCEPT ![u] = IF running_ THEN "seq_runCycle" ELSE "exited"]

\* ------------------------------------------------ CognitiveFusionReactor
\* A float is a multiple of 1/40 or NaN.
F(v) == [nan |-> FALSE, v |-> v]
NaN == [nan |-> TRUE, v |-> 0]
Zero == F(0)
Half == F(20)
One == F(40)

\* operator< and operator+ of float: every comparison with NaN is false
FLess(x, y) == ~x.nan /\ ~y.nan /\ x.v < y.v
FAdd(x, y) == IF x.nan \/ y.nan THEN NaN ELSE F(x.v + y.v)
\* delta * 0.5f
FHalf(x) == IF x.nan THEN NaN ELSE F(x.v \div 2)

\* std::max, std::min and std::clamp as the library computes them
FMax(a, b) == IF FLess(a, b) THEN b ELSE a
FMin(a, b) == IF FLess(b, a) THEN b ELSE a
clamp(v, lo, hi) == FMin(FMax(v, lo), hi)

\* the values and deltas the callers pass: -0.5, 1.5 and NaN; -1.0, 0.5
\* and NaN
RelevanceInputs == {F(-20), F(60), NaN}
DeltaInputs == {F(-40), F(20), NaN}
\* the handles the callers pass: of atoms that exist or not
HandleInputs == 1..MaxConcepts
\* the concept names and relation types the callers pass
ConceptNames == {"x"}
RelationTypes == {"y"}

\* embedding_dim_ of the reactor the callers construct
embedding_dim_ == 2

\* a space constructed with another dimensionality than the reactor's
dimensionsOther == embedding_dim_ - 1

\* EmbeddingSpace::dimensions_ of embedding_space_
dimensions_ == embedding_dim_

\* the vectors the callers of addConcept pass: none, one of a wrong length,
\* one of the configured length
ConceptEmbeddings == {<<>>, <<1>>, <<1, 0>>}

\* EmbeddingSpace::addEmbedding on the vector space: the error it throws, if
\* any, and the vector it leaves
addEmbeddingResult(space, id, embedding) ==
    IF Len(embedding) # dimensions_
    THEN [err |-> "runtime_error", space |-> space]
    ELSE [err |-> "none",
          space |-> Append(space, [id |-> id, emb |-> embedding])]

\* the learner's network after construction: no forward pass, no training
\* step. The weights are random and every pass rewrites the cached
\* activations, so the network is told by the passes it has made.
NewNetwork == [forward |-> 0, train |-> 0]

\* struct AttentionValue as addConcept initialises it
NewAttention == [sti |-> Half, lti |-> Half, vlti |-> Half]

NoRFrame == [name |-> "x", emb |-> <<>>, h |-> 0, delta |-> Zero,
             sti |-> Zero, high |-> {}, snap |-> EmptyMap]
NoRRet == [op |-> "none", h |-> 0, v |-> Zero, att |-> NewAttention,
           snap |-> EmptyMap, args |-> <<>>, err |-> "none", res |-> <<>>]

\* relevance_scores_.find(handle), else 0.5f
getRelevanceResult(handle) ==
    IF handle \in DOMAIN relevance_scores_ THEN relevance_scores_[handle]
    ELSE Half

\* relevance_scores_[handle] as updateRelevance reads it: operator[] inserts
\* a value-initialised float for a missing key
RelevanceRef(handle) ==
    IF handle \in DOMAIN relevance_scores_ THEN relevance_scores_[handle]
    ELSE Zero

\* a body that stores nothing
StoreNoRelevance(handle, relevance) == UNCHANGED relevance_scores_

\* body of setRelevance
StoreRelevance(handle, relevance) ==
    relevance_scores_' = Put(relevance_scores_, handle,
                             clamp(relevance, Zero, One))

\* the Facade call of thread t returns
RReturn(t, ret) ==
    /\ rpc' = [rpc EXCEPT ![t] = "idle"]
    /\ rframe' = [rframe EXCEPT ![t] = NoRFrame]
    /\ rret' = ret

\* setRelevance is called with one of the handles and one of the values
setRelevanceWith(t, handles, values) ==
    /\ UNCHANGED <<storeVars, agentVars, orchVars, network_>>
    /\ \E handle \in handles, relevance \in values :
           /\ rpc[t] = "idle"
           /\ spc[t] = "idle"
           /\ relevance_mutex_ = NoThread
           /\ StoreRelevance(handle, relevance)
           /\ RReturn(t, [NoRRet EXCEPT !.op = "setRelevance", !.h = handle])
           /\ UNCHANGED <<relevance_mutex_, attention_bank_, attention_mutex_,
                          embeddings_>>

setRelevance(t) == setRelevanceWith(t, HandleInputs, RelevanceInputs)

getRelevance(t) ==
    /\ UNCHANGED <<storeVars, agentVars, orchVars, network_>>
    /\ \E handle \in HandleInputs :
           /\ rpc[t] = "idle"
           /\ spc[t] = "idle"
           /\ relevance_mutex_ = NoThread
           /\ RReturn(t, [NoRRet EXCEPT !.op = "getRelevance", !.h = handle,
                                        !.v = getRelevanceResult(handle)])
           /\ UNCHANGED <<relevance_scores_, relevance_mutex_, attention_bank_,
                          attention_mutex_, embeddings_>>

\* updateRelevance: the relevance entry, then the attention entry, all under
\* relevance_mutex_. attention_mutex_ is not taken: the read of it->second.sti
\* and the write to it are two accesses that holders of attention_mutex_ can
\* come between.
updateRelevanceWith(t, handles, deltas) ==
    /\ UNCHANGED <<storeVars, agentVars, orchVars, network_>>
    /\ \/ \E handle \in handles, delta \in deltas :
             /\ rpc[t] = "idle"
             /\ spc[t] = "idle"
             /\ relevance_mutex_ = NoThread
             /\ relevance_mutex_' = t
             /\ relevance_scores_' =
                    Put(relevance_scores_, handle,
                        clamp(FAdd(RelevanceRef(handle), delta), Zero, One))
             /\ rpc' = [rpc EXCEPT ![t] = "ur_attention"]
             /\ rframe' = [rframe EXCEPT ![t] =
                              [NoRFrame EXCEPT !.h = handle, !.delta = delta]]
             /\ rret' = NoRRet
             /\ UNCHANGED <<attention_bank_, attention_mutex_, embeddings_>>
       \/ /\ rpc[t] = "ur_attention"
          /\ LET handle == rframe[t].h
                 delta == rframe[t].delta
             IN
             IF FLess(Zero, delta) /\ handle \in DOMAIN attention_bank_
             THEN /\ rpc' = [rpc EXCEPT ![t] = "ur_store"]
                  /\ rframe' = [rframe EXCEPT
                                    ![t].sti = attention_bank_[handle].sti]
                  /\ rret' = NoRRet
                  /\ UNCHANGED relevance_mutex_
             ELSE /\ relevance_mutex_' = NoThread
                  /\ RReturn(t, [NoRRet EXCEPT !.op = "updateRelevance",
                                    !.h = handle,
                                    !.v = relevance_scores_[handle]])
          /\ UNCHANGED <<relevance_scores_, attention_bank_, attention_mutex_,
                         embeddings_>>
       \/ /\ rpc[t] = "ur_store"
          /\ LET handle == rframe[t].h
                 delta == rframe[t].delta
             IN
             /\ attention_bank_' =
                    [attention_bank_ EXCEPT ![handle].sti =
                        FMin(One, FAdd(rframe[t].sti, FHalf(delta)))]
             /\ relevance_mutex_' = NoThread
             /\ RReturn(t, [NoRRet EXCEPT !.op = "updateRelevance",
                               !.h = handle,
                               !.v = relevance_scores_[handle]])
          /\ UNCHANGED <<relevance_scores_, attention_mutex_, embeddings_>>

updateRelevance(t) == updateRelevanceWith(t, HandleInputs, DeltaInputs)

\* addConcept: addNode, then the embedding, setRelevance and setAttention;
\* the callers create at most cap atoms and pass one of the vectors embs. An
\* exception of addEmbedding leaves addConcept at once.
addConceptUpTo(t, cap, embs) ==
    /\ UNCHANGED <<agentVars, orchVars, network_>>
    /\ \/ \E name \in ConceptNames, emb \in embs :
             /\ rpc[t] = "idle"
             /\ DedupHit(name) \/ Len(issued) < cap
             /\ emb = <<>> \/ Len(embeddings_) < MaxEmb
             /\ Enter(t, "addNode", [NoArg EXCEPT !.name = name, !.emb = emb])
             /\ rpc' = [rpc EXCEPT ![t] = "ac_addNode"]
             /\ rframe' = [rframe EXCEPT ![t] =
                              [NoRFrame EXCEPT !.name = name, !.emb = emb]]
             /\ rret' = NoRRet
             /\ UNCHANGED <<relevance_scores_, relevance_mutex_,
                            attention_bank_, attention_mutex_, embeddings_>>
       \/ /\ rpc[t] = "ac_addNode"
          /\ spc[t] = "idle"
          /\ LET embedding == rframe[t].emb
                 res == addEmbeddingResult(embeddings_, rframe[t].name,
                                           embedding)
             IN
             IF embedding # <<>> /\ Len(embedding) = embedding_dim_
             THEN /\ embeddings_' = res.space
                  /\ IF res.err = "none"
                     THEN /\ rpc' = [rpc EXCEPT ![t] = "ac_relevance"]
                          /\ rframe' = [rframe EXCEPT ![t].h = sarg[t].h]
                          /\ rret' = NoRRet
                     ELSE RReturn(t, [NoRRet EXCEPT !.op = res.err])
             ELSE /\ embeddings_' = embeddings_
                  /\ rpc' = [rpc EXCEPT ![t] = "ac_relevance"]
                  /\ rframe' = [rframe EXCEPT ![t].h = sarg[t].h]
                  /\ rret' = NoRRet
          /\ sarg' = [sarg EXCEPT ![t] = NoArg]
          /\ sret' = NoRet
          /\ UNCHANGED <<atoms_, name_index_, next_handle_, mutex_, spc,
                         issued, epoch, atom_mutex>>
          /\ UNCHANGED <<relevance_scores_, relevance_mutex_, attention_bank_,
                         attention_mutex_>>
       \/ /\ rpc[t] = "ac_relevance"
          /\ relevance_mutex_ = NoThread
          /\ StoreRelevance(rframe[t].h, Half)
          /\ rpc' = [rpc EXCEPT ![t] = "ac_attention"]
          /\ rret' = NoRRet
          /\ UNCHANGED storeVars
          /\ UNCHANGED <<relevance_mutex_, attention_bank_, attention_mutex_,
                         embeddings_, rframe>>
       \/ /\ rpc[t] = "ac_attention"
          /\ attention_mutex_ = NoThread
          /\ attention_bank_' = Put(attention_bank_, rframe[t].h, NewAttention)
          /\ RReturn(t, [NoRRet EXCEPT !.op = "addConcept", !.h = rframe[t].h])
          /\ UNCHANGED storeVars
          /\ UNCHANGED <<relevance_scores_, relevance_mutex_, attention_mutex_,
                         embeddings_>>

addConcept(t) == addConceptUpTo(t, MaxConcepts, Embeddings)

\* addRelation: addLink, then setRelevance; the callers create at most cap
\* atoms and pass one of the outgoing lists outs
addRelationUpTo(t, cap, outs) ==
    /\ UNCHANGED <<agentVars, orchVars, network_>>
    /\ \/ \E type \in RelationTypes, out \in outs :
             /\ rpc[t] = "idle"
             /\ Len(issued) < cap
             /\ Enter(t, "addLink", [NoArg EXCEPT !.name = type, !.out = out])
             /\ rpc' = [rpc EXCEPT ![t] = "ar_addLink"]
             /\ rret' = NoRRet
             /\ UNCHANGED <<relevance_scores_, relevance_mutex_,
                            attention_bank_, attention_mutex_, embeddings_,
                            rframe>>
       \/ /\ rpc[t] = "ar_addLink"
          /\ spc[t] = "idle"
          /\ relevance_mutex_ = NoThread
          /\ StoreRelevance(sarg[t].h, Half)
          /\ sarg' = [sarg EXCEPT ![t] = NoArg]
          /\ sret' = NoRet
          /\ RReturn(t, [NoRRet EXCEPT !.op = "addRelation", !.h = sarg[t].h])
          /\ UNCHANGED <<atoms_, name_index_, next_handle_, mutex_, spc,
                         issued, epoch, atom_mutex>>
          /\ UNCHANGED <<relevance_mutex_, attention_bank_, attention_mutex_,
                         embeddings_>>

addRelation(t) == addRelationUpTo(t, MaxConcepts, Outgoings)

\* 0.1f and 0.7f of spreadAttention
SpreadStep == F(4)
SpreadThreshold == F(28)

\* AttentionValue{}: the entry attention_bank_[handle] inserts for a missing
\* key
ValueInitAttention == [sti |-> Zero, lti |-> Zero, vlti |-> Zero]

\* the outgoing lists the callers of addRelation pass: up to two atoms the
\* store holds, the same atom twice included
LinkOutgoings ==
    {<<>>} \cup {<<a>> : a \in DOMAIN atoms_}
           \cup {<<a, b>> : a \in DOMAIN atoms_, b \in DOMAIN atoms_}

\* the handles the callers of the attention operations pass
AtomHandles == 1..MaxAtoms

\* the attention values the callers pass: {0.2, 0.6, 0.4}, {0.8, 0.6, 0.4}
AttentionInputs == {[sti |-> F(8), lti |-> F(24), vlti |-> F(16)],
                    [sti |-> F(32), lti |-> F(24), vlti |-> F(16)]}

\* attention_bank_.find(handle), else AttentionValue{0.5f, 0.5f, 0.5f}
getAttentionResult(handle) ==
    IF handle \in DOMAIN attention_bank_ THEN attention_bank_[handle]
    ELSE NewAttention

\* setAttention on one of the handles the callers pass
\* setAttention is called with one of the handles and one of the values
setAttentionWith(t, handles, values) ==
    /\ UNCHANGED <<storeVars, agentVars, orchVars, network_>>
    /\ \E handle \in handles, attention \in values :
           /\ rpc[t] = "idle"
           /\ spc[t] = "idle"
           /\ attention_mutex_ = NoThread
           /\ attention_bank_' = Put(attention_bank_, handle, attention)
           /\ RReturn(t, [NoRRet EXCEPT !.op = "setAttention", !.h = handle])
           /\ UNCHANGED <<relevance_scores_, relevance_mutex_,
                          attention_mutex_, embeddings_>>

setAttentionOn(t, handles) == setAttentionWith(t, handles, AttentionInputs)

setAttention(t) == setAttentionOn(t, HandleInputs)

getAttentionOn(t, handles) ==
    /\ UNCHANGED <<storeVars, agentVars, orchVars, network_>>
    /\ \E handle \in handles :
           /\ rpc[t] = "idle"
           /\ spc[t] = "idle"
           /\ attention_mutex_ = NoThread
           /\ RReturn(t, [NoRRet EXCEPT !.op = "getAttention", !.h = handle,
                                        !.att = getAttentionResult(handle)])
           /\ UNCHANGED <<relevance_scores_, relevance_mutex_, attention_bank_,
                          attention_mutex_, embeddings_>>

getAttention(t) == getAttentionOn(t, HandleInputs)

\* a collection that takes every handle of the table
HighAttentionAll == DOMAIN attention_bank_

\* the handles spreadAttention collects: sti > 0.7f
HighAttention ==
    {h \in DOMAIN attention_bank_ :
        FLess(SpreadThreshold, attention_bank_[h].sti)}

\* a loop that raises each distinct target of the outgoing list once
SpreadOverDistinct(bank, out) ==
    LET targets == {out[i] : i \in 1..Len(out)}
        entry(x) == IF x \in DOMAIN bank THEN bank[x] ELSE ValueInitAttention
    IN [x \in DOMAIN bank \cup targets |->
           IF x \in targets
           THEN [entry(x) EXCEPT !.sti = FMin(One, FAdd(@, SpreadStep))]
           ELSE bank[x]]

\* the inner loop of spreadAttention over one outgoing list: operator[] on
\* the target, then sti = min(1.0f, sti + 0.1f)
RECURSIVE SpreadOver(_, _)
SpreadOver(bank, out) ==
    IF out = <<>> THEN bank
    ELSE LET target == Head(out)
             entry == IF target \in DOMAIN bank THEN bank[target]
                      ELSE ValueInitAttention
         IN SpreadOver(Put(bank, target,
                           [entry EXCEPT !.sti = FMin(One, FAdd(@, SpreadStep))]),
                       Tail(out))

\* spreadAttention: attention_mutex_ is held from the first statement to the
\* return; each getAtom takes and releases the store mutex inside it. The
\* iteration order of attention_bank_ is unspecified: the handles are taken
\* in any order. With record, the frame keeps the table the call started
\* from (history).
spreadAttentionCall(t, record) ==
    /\ UNCHANGED <<agentVars, orchVars, network_>>
    /\ \/ /\ rpc[t] = "idle"
          /\ spc[t] = "idle"
          /\ attention_mutex_ = NoThread
          /\ attention_mutex_' = t
          /\ rpc' = [rpc EXCEPT ![t] = "sa_loop"]
          /\ rframe' = [rframe EXCEPT ![t] =
                           [NoRFrame EXCEPT
                               !.high = HighAttention,
                               !.snap = IF record THEN attention_bank_
                                        ELSE EmptyMap]]
          /\ rret' = NoRRet
          /\ UNCHANGED storeVars
          /\ UNCHANGED <<relevance_scores_, relevance_mutex_, attention_bank_,
                         embeddings_>>
       \/ /\ rpc[t] = "sa_loop"
          /\ rframe[t].high = {}
          /\ attention_mutex_' = NoThread
          /\ RReturn(t, [NoRRet EXCEPT !.op = "spreadAttention",
                                       !.snap = rframe[t].snap])
          /\ UNCHANGED storeVars
          /\ UNCHANGED <<relevance_scores_, relevance_mutex_, attention_bank_,
                         embeddings_>>
       \/ /\ rpc[t] = "sa_loop"
          /\ \E handle \in rframe[t].high :
                 /\ LockFree(t)
                 /\ mutex_' = t
                 /\ rpc' = [rpc EXCEPT ![t] = "sa_getAtom"]
                 /\ rframe' = [rframe EXCEPT ![t].h = handle,
                                             ![t].high = @ \ {handle}]
          /\ rret' = NoRRet
          /\ UNCHANGED <<atoms_, name_index_, next_handle_, spc, sarg, sret,
                         issued, epoch, atom_mutex>>
          /\ UNCHANGED <<relevance_scores_, relevance_mutex_, attention_bank_,
                         attention_mutex_, embeddings_>>
       \/ /\ rpc[t] = "sa_getAtom"
          /\ mutex_' = NoThread
          /\ LET handle == rframe[t].h IN
             /\ (handle \in DOMAIN atoms_ /\ atoms_[handle].kind = "Link")
                    => AtomLockFree(atoms_[handle].uid)
             /\ attention_bank_' =
                    IF handle \in DOMAIN atoms_ /\ atoms_[handle].kind = "Link"
                    THEN SpreadOver(attention_bank_, atoms_[handle].out)
                    ELSE attention_bank_
          /\ rpc' = [rpc EXCEPT ![t] = "sa_loop"]
          /\ rret' = NoRRet
          /\ UNCHANGED <<atoms_, name_index_, next_handle_, spc, sarg, sret,
                         issued, epoch, atom_mutex>>
          /\ UNCHANGED <<relevance_scores_, relevance_mutex_, attention_mutex_,
                         embeddings_, rframe>>

spreadAttention(t) == spreadAttentionCall(t, FALSE)

\* ---------------------------------------- EmbeddingSpace, EmbeddingLearner
\* the ids and vectors the callers of addEmbedding pass; <<1>> has a wrong
\* length
EmbeddingIds == {"x", "y"}
VectorInputs == {<<1, 0>>, <<1, 1>>, <<0, 0>>, <<-1, 0>>, <<1>>}

\* EmbeddingSpace::addEmbedding called on embedding_space_ by its user, who
\* stores at most cap vectors
addEmbeddingUpTo(t, cap) ==
    /\ UNCHANGED <<storeVars, agentVars, orchVars>>
    /\ \E id \in EmbeddingIds, embedding \in VectorInputs :
           LET res == addEmbeddingResult(embeddings_, id, embedding) IN
           /\ rpc[t] = "idle"
           /\ spc[t] = "idle"
           /\ Len(embeddings_) < cap
           /\ embeddings_' = res.space
           /\ RReturn(t, [NoRRet EXCEPT !.op = "addEmbedding",
                                        !.args = <<id, embedding>>,
                                        !.err = res.err])
           /\ UNCHANGED <<relevance_scores_, relevance_mutex_, attention_bank_,
                          attention_mutex_, network_>>

addEmbedding(t) == addEmbeddingUpTo(t, MaxStored)

\* EmbeddingSpace::getEmbedding: the place of the first entry stored under
\* id, 0 for nullptr
getEmbedding(id) ==
    LET places == {i \in 1..Len(embeddings_) : embeddings_[i].id = id}
    IN IF places = {} THEN 0
       ELSE CHOOSE i \in places : \A j \in places : i <= j

\* operator- and operator* of float
FSub(x, y) == IF x.nan \/ y.nan THEN NaN ELSE F(x.v - y.v)
FMul(x, y) == IF x.nan \/ y.nan THEN NaN ELSE F((x.v * y.v) \div One.v)

\* a sentinel inside the range of the losses: 0.0f
NotFoundZero == Zero

\* the sentinel learnSimilarity returns: -1.0f
NotFound == F(-40)

\* the targets the callers pass: 0.5 and NaN
TargetInputs == {Half, NaN}

\* current_similarity of learnFromSimilarity: the cosine of the two
\* transformed vectors, which depends on the random weights; -1 and 0.5
\* stand for its values
CurrentSimilarities == {F(-40), Half}

\* learnSimilarity: both lookups, then EmbeddingLearner::learnFromSimilarity
\* (two transform() passes, the loss, one LearnableNetwork::train, which is a
\* forward pass and a backward pass)
learnSimilarity(t) ==
    /\ UNCHANGED <<storeVars, agentVars, orchVars>>
    /\ \E concept1 \in EmbeddingIds, concept2 \in EmbeddingIds,
          target_similarity \in TargetInputs,
          current_similarity \in CurrentSimilarities :
           LET emb1 == getEmbedding(concept1)
               emb2 == getEmbedding(concept2)
               diff == FSub(current_similarity, target_similarity)
               loss == FMul(diff, diff)
               call == [NoRRet EXCEPT !.op = "learnSimilarity",
                           !.args = <<concept1, concept2, target_similarity>>]
           IN
           /\ rpc[t] = "idle"
           /\ spc[t] = "idle"
           /\ IF emb1 = 0 \/ emb2 = 0
              THEN /\ RReturn(t, [call EXCEPT !.v = NotFound])
                   /\ UNCHANGED network_
              ELSE /\ network_.train < MaxTrain
                   /\ network_' = [forward |-> network_.forward + 3,
                                   train |-> network_.train + 1]
                   /\ RReturn(t, [call EXCEPT !.v = loss])
           /\ UNCHANGED <<relevance_scores_, relevance_mutex_, attention_bank_,
                          attention_mutex_, embeddings_>>

\* A similarity is the real number num / sqrt(den), den > 0: cosines of
\* integer vectors and the thresholds are of this form.
Sim(num, den) == [num |-> num, den |-> den]
SimZero == Sim(0, 1)

\* operator< on two similarities
SimLess(a, b) ==
    IF a.num < 0 /\ b.num >= 0 THEN TRUE
    ELSE IF a.num >= 0 /\ b.num < 0 THEN FALSE
    ELSE IF a.num >= 0 THEN a.num * a.num * b.den < b.num * b.num * a.den
    ELSE a.num * a.num * b.den > b.num * b.num * a.den

\* the sums of the loop of cosineSimilarity
RECURSIVE Dot(_, _)
Dot(a, b) ==
    IF a = <<>> THEN 0 ELSE Head(a) * Head(b) + Dot(Tail(a), Tail(b))

\* TensorEmbedding::cosineSimilarity: 0.0f for different or zero dimensions
\* and for a denominator below 1e-8f, else dot / (sqrt(na) * sqrt(nb))
cosineSimilarity(a, b) ==
    IF Len(a) # Len(b) \/ Len(a) = 0 THEN SimZero
    ELSE IF Dot(a, a) * Dot(b, b) = 0 THEN SimZero
    ELSE Sim(Dot(a, b), Dot(a, a) * Dot(b, b))

\* the queries, result sizes and thresholds the callers of findNearest pass:
\* thresholds -1, 0 (the default) and 0.5
QueryInputs == {<<1, 0>>, <<1, 1>>, <<1>>}
KInputs == 0..2
ThresholdInputs == {Sim(-1, 1), SimZero, Sim(1, 4)}

\* the vector `similarities` of findNearest before the sort: the entries
\* with sim >= threshold, in storage order
RECURSIVE Similarities(_, _, _)
Similarities(space, query, threshold) ==
    IF space = <<>> THEN <<>>
    ELSE LET sim == cosineSimilarity(query, Head(space).emb)
             rest == Similarities(Tail(space), query, threshold)
         IN IF ~SimLess(sim, threshold)
            THEN <<[id |-> Head(space).id, sim |-> sim]>> \o rest
            ELSE rest

\* a comparator that sorts in ascending order
CompAscending(a, b) == SimLess(a.sim, b.sim)

\* the comparator of the sort
Comp(a, b) == SimLess(b.sim, a.sim)

\* the outcomes of std::sort(v, comp): the arrangements of v in which no
\* element comes before one that comp puts first (the sort is not stable)
Sorted(v) ==
    LET n == Len(v)
        perms == {f \in [1..n -> 1..n] : \A i, j \in 1..n : i # j => f[i] # f[j]}
        arranged(f) == [i \in 1..n |-> v[f[i]]]
    IN {arranged(f) : f \in {g \in perms :
           \A i, j \in 1..n : i < j => ~Comp(v[g[j]], v[g[i]])}}

\* similarities.resize(k) when the vector is longer
Resize(v, k) == IF Len(v) > k THEN SubSeq(v, 1, k) ELSE v

\* EmbeddingSpace::findNearest called on embedding_space_ by its user
findNearest(t) ==
    /\ UNCHANGED <<storeVars, agentVars, orchVars>>
    /\ \E query \in QueryInputs, k \in KInputs, threshold \in ThresholdInputs :
           LET call == [NoRRet EXCEPT !.op = "findNearest",
                                      !.args = <<query, k, threshold>>]
           IN
           /\ rpc[t] = "idle"
           /\ spc[t] = "idle"
           /\ IF Len(query) # dimensions_
              THEN RReturn(t, [call EXCEPT !.err = "runtime_error"])
              ELSE \E v \in Sorted(Similarities(embeddings_, query, threshold)) :
                       RReturn(t, [call EXCEPT !.res = Resize(v, k)])
           /\ UNCHANGED <<relevance_scores_, relevance_mutex_, attention_bank_,
                          attention_mutex_, embeddings_, network_>>

\* a similarity function that scores a length mismatch with -1
cosineSimilarityStrict(a, b) ==
    IF Len(a) # Len(b) \/ Len(a) = 0 THEN Sim(-1, 1)
    ELSE IF Dot(a, a) * Dot(b, b) = 0 THEN SimZero
    ELSE Sim(Dot(a, b), Dot(a, a) * Dot(b, b))

\* cosineSimilarity of atomspace.cpp, on two vectors: 0.0f for different
\* sizes, for an empty vector and for a denominator below 1e-8f
cosineSimilarityOfVectors(a, b) ==
    IF Len(a) # Len(b) \/ a = <<>> THEN SimZero
    ELSE IF Dot(a, a) * Dot(b, b) = 0 THEN SimZero
    ELSE Sim(Dot(a, b), Dot(a, a) * Dot(b, b))

\* the queries the callers of querySimilar pass: of the Nodes' length, of
\* another length, of zero norm
StoreQueryInputs == {<<1, 0>>, <<1>>, <<0, 0>>}

\* the vector `similarities` of querySimilar before the sort, the Nodes
\* taken by ascending handle: Nodes with an embedding and sim >= threshold
RECURSIVE NodeSimilarities(_, _, _)
NodeSimilarities(h, query_embedding, threshold) ==
    IF h = 0 THEN <<>>
    ELSE LET rest == NodeSimilarities(h - 1, query_embedding, threshold)
             sim == cosineSimilarityOfVectors(query_embedding, atoms_[h].emb)
         IN IF /\ h \in DOMAIN atoms_
               /\ atoms_[h].kind = "Node"
               /\ atoms_[h].emb # <<>>
               /\ ~SimLess(sim, threshold)
            THEN rest \o <<[h |-> h, sim |-> sim]>>
            ELSE rest

\* AtomSpace::querySimilar: one lock_guard section. The iteration order of
\* atoms_ is unspecified and the sort is not stable: every sorted arrangement
\* is an outcome.
querySimilarWith(t, queries, ks, thresholds) ==
    /\ UNCHANGED <<storeVars, agentVars, orchVars>>
    /\ \E query_embedding \in queries, k \in ks, threshold \in thresholds :
           /\ rpc[t] = "idle"
           /\ spc[t] = "idle"
           /\ LockFree(t)
           /\ \A h \in DOMAIN atoms_ :
                  atoms_[h].kind = "Node" => AtomLockFree(atoms_[h].uid)
           /\ \E v \in Sorted(NodeSimilarities(MaxAtoms, query_embedding,
                                               threshold)) :
                  RReturn(t, [NoRRet EXCEPT !.op = "querySimilar",
                                 !.args = <<query_embedding, k, threshold>>,
                                 !.res = Resize(v, k)])
           /\ UNCHANGED <<relevance_scores_, relevance_mutex_, attention_bank_,
                          attention_mutex_, embeddings_, network_>>

querySimilar(t) ==
    querySimilarWith(t, StoreQueryInputs, KInputs, ThresholdInputs)

\* the store, the agents and the orchestrator as their constructors leave them
Init ==
    /\ atoms_ = EmptyMap
    /\ name_index_ = EmptyIndex
    /\ next_handle_ = 0
    /\ mutex_ = NoThread
    /\ spc = [t \in Threads |-> "idle"]
    /\ sarg = [t \in Threads |-> NoArg]
    /\ sret = NoRet
    /\ issued = <<>>
    /\ epoch = 0
    /\ atom_mutex = [u \in 1..MaxAtoms |-> NoThread]
    /\ agents_ = <<>>
    /\ reg_mutex = NoThread
    /\ message_queue_ = [a \in Agents |-> <<>>]
    /\ state_ = [a \in Agents |-> "IDLE"]
    /\ agent_mutex = [a \in Agents |-> NoThread]
    /\ apc = [t \in AllThreads |-> IF t \in Threads THEN "idle" ELSE "unspawned"]
    /\ aframe = [t \in AllThreads |-> NoFrame]
    /\ aret = NoARet
    /\ received = [a \in Agents |-> <<>>]
    /\ taken = [a \in Agents |-> <<>>]
    /\ running_ = FALSE
    /\ agent_threads_ = <<>>
    /\ strategy_ = "PARALLEL"
    /\ relevance_scores_ = EmptyMap
    /\ relevance_mutex_ = NoThread
    /\ attention_bank_ = EmptyMap
    /\ attention_mutex_ = NoThread
    /\ embeddings_ = <<>>
    /\ network_ = NewNetwork
    /\ rpc = [t \in Threads |-> "idle"]
    /\ rframe = [t \in Threads |-> NoRFrame]
    /\ rret = NoRRet

QNext ==
    \E t \in Threads :
        \/ receiveMessage(t)
        \/ getNextMessage(t)
        \/ setState(t)

ONext ==
    \E t \in Threads :
        \/ receiveMessage(t)
        \/ registerAgent(t)
        \/ unregisterAgent(t)
        \/ sendMessage(t)
        \/ broadcast(t)


CNext ==
    \E t \in Threads :
        \/ registerAgent(t)
        \/ callerSetState(t)
        \/ runCycle(t)
        \/ cycle(t)
        \/ think(t)
        \/ act(t)
        \/ callbackSendMessage(t)

\* the steps of an execution unit
UnitStep(u) ==
    \/ agentThread(u)
    \/ sequentialThread(u)
    \/ runCycle(u)
    \/ cycle(u)
    \/ think(u)
    \/ act(u)
    \/ callbackSendMessage(u)

LNext ==
    \/ start(Owner)
    \/ startParallel(Owner)
    \/ startSequential(Owner)
    \/ stop(Owner)
    \/ setStrategy(Owner)
    \/ \E t \in Threads \ {Owner} :
          \/ registerAgent(t)
          \/ callerSetState(t)
    \/ \E u \in Units : UnitStep(u)

FNext ==
    \E t \in Threads :
        \/ addConcept(t)
        \/ addNode(t)
        \/ addRelation(t)
        \/ addLink(t)
        \/ setRelevance(t)
        \/ getRelevance(t)
        \/ updateRelevance(t)

\* concurrent callers of one AtomSpace
SpecStore == Init /\ [][SNext]_vars

\* concurrent senders and readers of the agents' message queues
SpecQueue == Init /\ [][QNext]_vars

\* concurrent callers of the AgentOrchestrator and senders to its agents
SpecAgents == Init /\ [][ONext]_vars

\* callers of runCycle, registerAgent and setState; the callbacks may send
SpecCycle == Init /\ [][CNext]_vars

\* the owner starts and stops the orchestrator while another caller
\* registers agents and sets their states and the units run
SpecLoops == Init /\ [][LNext]_vars

\* the same, with every thread that can take a step scheduled eventually:
\* each unit, and the owner inside start() and stop()
SpecLoopsFair ==
    /\ SpecLoops
    /\ \A u \in Units : WF_vars(UnitStep(u))
    /\ WF_vars(apc[Owner] = "stop_join" /\ stop(Owner))
    /\ WF_vars(apc[Owner] = "start_set" /\ start(Owner))
    /\ WF_vars(startParallel(Owner))
    /\ WF_vars(startSequential(Owner))

\* concurrent callers of the relevance operations of one reactor
SpecFacade == Init /\ [][FNext]_vars

TNext ==
    \E t \in Threads :
        \/ addRelation(t)
        \/ addLink(t)
        \/ setAttention(t)
        \/ spreadAttention(t)
        \/ updateRelevance(t)

\* the thread of a single-threaded caller
Caller == 1

PNext ==
    \/ addConceptUpTo(Caller, MaxAtoms, Embeddings)
    \/ addNode(Caller)
    \/ addRelationUpTo(Caller, MaxAtoms, LinkOutgoings)
    \/ addLink(Caller)
    \/ setAttentionOn(Caller, AtomHandles)
    \/ spreadAttentionCall(Caller, TRUE)

\* one caller builds a knowledge base, sets attention values and spreads
SpecSpread == Init /\ [][PNext]_vars

KNext ==
    \/ addConceptUpTo(Caller, MaxConcepts, ConceptEmbeddings)
    \/ addNode(Caller)
    \/ setRelevance(Caller)
    \/ getRelevance(Caller)
    \/ setAttention(Caller)
    \/ getAttention(Caller)

\* one caller adds concepts and sets and reads their relevance and attention
SpecConcept == Init /\ [][KNext]_vars

ENext ==
    \/ addEmbedding(Caller)
    \/ learnSimilarity(Caller)
    \/ findNearest(Caller)

\* one caller fills the Embedding Space, searches it and trains the learner
SpecEmbedding == Init /\ [][ENext]_vars

RNext ==
    \/ addNodeCall(Caller)
    \/ addNode(Caller)
    \/ querySimilar(Caller)
    \/ addEmbeddingUpTo(Caller, MaxVectors)
    \/ findNearest(Caller)

\* one caller fills the store and the Embedding Space and searches both
SpecSimilar == Init /\ [][RNext]_vars

UNext ==
    \/ addConcept(Caller)
    \/ addNode(Caller)
    \/ addRelation(Caller)
    \/ addLink(Caller)
    \/ setAttention(Caller)
    \/ getAttention(Caller)
    \/ getRelevance(Caller)
    \/ rpc[Caller] = "idle" /\ clearCall(Caller)
    \/ clear(Caller)

\* one caller adds concepts and relations, sets and reads attention and
\* clears the store
SpecReuse == Init /\ [][UNext]_vars

\* concurrent callers of the attention operations and of updateRelevance
SpecTables == Init /\ [][TNext]_vars

VNext ==
    \/ setRelevance(Caller)
    \/ getRelevance(Caller)
    \/ updateRelevance(Caller)
    \/ setAttention(Caller)
    \/ getAttention(Caller)

\* one caller sets, reads and updates relevance scores and attention values
SpecUpdate == Init /\ [][VNext]_vars

MNext ==
    \E t \in Threads :
        \/ receiveMessage(t)
        \/ getNextMessage(t)
        \/ processMessages(t)

\* concurrent senders to the agents' queues and consumers of them
SpecProcess == Init /\ [][MNext]_vars

XNext ==
    \/ start(Owner)
    \/ startParallel(Owner)
    \/ stop(Owner)
    \/ \E t \in Threads \ {Owner} :
          \/ registerAgent(t)
          \/ unregisterAgent(t)
          \/ runCycle(t)
    \/ \E u \in AllThreads \ {Owner} :
          \/ agentThread(u)
          \/ cycle(u)
          \/ think(u)
          \/ actQuiet(u)

\* the owner starts and stops the orchestrator, left at the PARALLEL
\* strategy it is constructed with, while another caller registers and
\* unregisters agents and calls runCycle, and the units run; the callbacks
\* send no message
SpecRunning == Init /\ [][XNext]_vars

\* ------------------------------------------------- Knowledge Store claims
ClearLabels == {"clear_atoms", "clear_index", "clear_handle"}

\* thread t completes the critical section of the operation `label`
Returns(t, label) == spc[t] = label /\ spc'[t] = "idle"

\* handles listed in the name index, with multiplicity
IndexEntries ==
    UNION {{<<n, i>> : i \in 1..Len(name_index_[n])} : n \in Names}
IndexCount(h) ==
    Cardinality({e \in IndexEntries : name_index_[e[1]][e[2]] = h})
IndexHandles == {name_index_[e[1]][e[2]] : e \in IndexEntries}

\* C1: addNode(name, anyEmbedding) called when a Node named `name` already
\* exists in the store returns that existing Node, creates no atom (size
\* unchanged) and leaves the existing Node's embedding unchanged.
C1_AddNodeReturnsExisting ==
    [][\A t \in Threads :
          (Returns(t, "addNode") /\ ExistingNodes(sarg[t].name) # {})
          => /\ sret'.h \in ExistingNodes(sarg[t].name)
             /\ atoms_' = atoms_]_vars

\* C2: every addLink(type, outgoing) creates a new atom whose handle differs
\* from every handle currently in the store and increases size() by exactly
\* one, also when a Link with the same type and outgoing list exists.
C2_AddLinkAlwaysCreates ==
    [][\A t \in Threads :
          Returns(t, "addLink")
          => /\ sret'.h \notin DOMAIN atoms_
             /\ DOMAIN atoms_' = (DOMAIN atoms_) \cup {sret'.h}
             /\ Cardinality(DOMAIN atoms_') = Cardinality(DOMAIN atoms_) + 1
             /\ atoms_'[sret'.h].kind = "Link"
             /\ atoms_'[sret'.h].name = sarg[t].name
             /\ atoms_'[sret'.h].out = sarg[t].out
             /\ \A h \in DOMAIN atoms_ : atoms_'[h] = atoms_[h]]_vars

\* a Link was just added although an identical Link was already stored
C2_Witness ==
    /\ sret.op = "addLink"
    /\ \E h \in DOMAIN atoms_ :
          /\ h # sret.h
          /\ sret.h \in DOMAIN atoms_
          /\ atoms_[h].kind = "Link"
          /\ atoms_[h].name = atoms_[sret.h].name
          /\ atoms_[h].out = atoms_[sret.h].out
          /\ atoms_[h].out # <<>>

\* C3: outside the critical section of clear(), the keys of the handle map
\* are exactly 1..n, n being the number of atoms created since construction
\* or the last clear(); n is the largest handle issued, and the name index
\* lists every key of the handle map exactly once and nothing else.
C3_DenseHandles ==
    (\A t \in Threads : spc[t] \notin ClearLabels)
    => /\ DOMAIN atoms_ = 1..(Len(issued) - epoch)
       /\ next_handle_ = Len(issued) - epoch
       /\ Cardinality(DOMAIN atoms_) = next_handle_
       /\ IndexHandles = DOMAIN atoms_
       /\ \A h \in DOMAIN atoms_ :
             /\ IndexCount(h) = 1
             /\ \E i \in 1..Len(name_index_[atoms_[h].name]) :
                   name_index_[atoms_[h].name][i] = h

\* atoms were created again after a clear(), two of them under one name
C3_Witness ==
    /\ epoch > 0
    /\ Cardinality(DOMAIN atoms_) >= 2
    /\ \E n \in Names : Len(name_index_[n]) >= 2
    /\ \A t \in Threads : spc[t] = "idle"

\* C4 (as stated): over any sequence of addNode, addLink and clear, handles
\* strictly increase with creation order and no handle value is given to two
\* distinct atoms.
C4_HandlesNeverReused ==
    \A i, j \in 1..Len(issued) : i < j => issued[i].h < issued[j].h

\* C4 (amended): among the atoms created between two consecutive clear()
\* calls (or since construction), handles strictly increase with creation
\* order, so no two of them share a handle; the first atom created after a
\* clear() gets handle 1 again.
C4_HandlesUniqueBetweenClears ==
    /\ \A i, j \in 1..Len(issued) :
          (i < j /\ issued[i].ep = issued[j].ep) => issued[i].h < issued[j].h
    /\ \A i \in 1..Len(issued) :
          (i = 1 \/ issued[i].ep = i - 1) => issued[i].h = 1

\* two atoms were created after a clear() that followed an earlier creation
C4_Witness ==
    \E i, j \in 1..Len(issued) :
        /\ i < j
        /\ issued[i].ep = issued[j].ep
        /\ issued[i].ep > 0
        /\ issued[1].h = issued[i].h

\* the two maps and the counter agree: a state before or after a clear()
StoreConsistent ==
    /\ DOMAIN atoms_ = 1..next_handle_
    /\ IndexHandles = DOMAIN atoms_

\* C5: clear() is atomic for concurrent store operations: an operation in
\* its critical section sees the maps and the counter either all as before
\* the clear or all cleared (both maps empty, next handle 1), never one map
\* emptied and the other not; a lookup by name never meets a missing handle.
C5_ClearAtomic ==
    /\ \A t \in Threads :
          spc[t] \notin ClearLabels \cup {"idle"} => StoreConsistent
    /\ sret.op # "out_of_range"
    /\ sret.op = "clear"
       => atoms_ = EmptyMap /\ name_index_ = EmptyIndex /\ next_handle_ = 0

\* a clear() has emptied the handle map and not yet the name index
C5_Witness ==
    \E t \in Threads :
        /\ spc[t] = "clear_index"
        /\ name_index_ # EmptyIndex
        /\ atoms_ = EmptyMap
        /\ next_handle_ > 0

\* C6: for any interleaving of concurrent addNode and addLink calls no two
\* created atoms receive the same handle, and the addNode calls with one
\* name all return the same Node, only one Node being created for the name.
C6_AddsLinearizable ==
    (epoch = 0 /\ \A t \in Threads : spc[t] \notin ClearLabels)
    => /\ \A i, j \in 1..Len(issued) : i < j => issued[i].h # issued[j].h
       /\ \A n \in Names : Cardinality(ExistingNodes(n)) <= 1

\* --------------------------------------------- Agent and Orchestrator claims
\* some registry entry holds an agent with this id
Registered(agent_id) ==
    \E i \in 1..Len(agents_) : AgentId(agents_[i]) = agent_id

\* number of registry entries that hold agent a
Registrations(a) == Cardinality({i \in 1..Len(agents_) : agents_[i] = a})

\* C7: an agent's queue is FIFO and lossless: in every interleaving of
\* receiveMessage and getNextMessage calls the messages returned so far,
\* followed by the messages still queued, are exactly the messages enqueued,
\* in the order their receiveMessage calls took effect; a successful
\* getNextMessage returns the message it removed.
C7_QueueFifoLossless ==
    /\ \A a \in Agents : received[a] = taken[a] \o message_queue_[a]
    /\ (aret.op = "getNextMessage" /\ aret.err = "")
       => /\ taken[aret.a] # <<>>
          /\ aret.msg = taken[aret.a][Len(taken[aret.a])]

\* two different messages were enqueued on one agent and both taken again
C7_Witness ==
    \E a \in Agents :
        /\ Len(taken[a]) >= 2
        /\ taken[a][1] # taken[a][2]
        /\ message_queue_[a] = <<>>

\* C8: getNextMessage on an empty queue fails with "No messages available"
\* and leaves the agent's queue and state unchanged; when the queue is not
\* empty as the call takes the agent lock, the call returns the head of the
\* queue and removes it.
C8_GetNextMessageEmptyFails ==
    [][\A t \in Threads :
          /\ (apc[t] = "idle" /\ aret'.op = "getNextMessage" /\ aret'.t = t)
             => /\ message_queue_[aret'.a] = <<>>
                /\ aret'.err = "No messages available"
                /\ message_queue_' = message_queue_
                /\ state_' = state_
                /\ taken' = taken
          /\ (apc[t] = "idle" /\ apc'[t] = "gnm_pop")
             => /\ message_queue_[aframe'[t].a] # <<>>
                /\ agent_mutex[aframe'[t].a] = NoThread
                /\ message_queue_' = message_queue_
          /\ (apc[t] = "gnm_pop" /\ apc'[t] = "idle")
             => /\ aret'.op = "getNextMessage"
                /\ aret'.err = ""
                /\ aret'.msg = Head(message_queue_[aframe[t].a])
                /\ message_queue_' =
                      [message_queue_ EXCEPT ![aframe[t].a] = Tail(@)]
                /\ state_' = state_]_vars

\* getNextMessage failed on a suspended agent whose queue had been drained
C8_Witness ==
    /\ aret.op = "getNextMessage"
    /\ aret.err = "No messages available"
    /\ taken[aret.a] # <<>>
    /\ state_[aret.a] = "SUSPENDED"

\* C9: sendMessage(msg): when an agent with id msg.to is registered at the
\* lookup, exactly one copy of msg is appended to the queue of one agent
\* with that id (so its queue is not empty, and msg is its head when it was
\* empty) and no other queue changes; when none is registered, the call
\* returns without error and no queue changes.
C9_SendMessageDelivery ==
    [][\A t \in Threads :
          /\ (apc[t] = "idle" /\ apc'[t] = "send_receive")
             => /\ Registered(aframe'[t].msg.to)
                /\ AgentId(aframe'[t].a) = aframe'[t].msg.to
                /\ Registrations(aframe'[t].a) > 0
                /\ message_queue_' = message_queue_
          /\ (apc[t] = "idle" /\ aret'.op = "sendMessage" /\ aret'.t = t)
             => /\ ~Registered(aret'.msg.to)
                /\ aret'.err = ""
                /\ aret'.a = NoAgent
                /\ message_queue_' = message_queue_
          /\ (apc[t] = "send_receive" /\ apc'[t] = "idle")
             => /\ message_queue_' =
                      [message_queue_ EXCEPT
                          ![aframe[t].a] = Append(@, aframe[t].msg)]
                /\ message_queue_'[aframe[t].a] # <<>>
                /\ message_queue_[aframe[t].a] = <<>>
                   => Head(message_queue_'[aframe[t].a]).content
                         = aframe[t].msg.content
                /\ aret'.op = "sendMessage"
                /\ aret'.a = aframe[t].a
                /\ aret'.err = ""]_vars

\* a message was delivered to the one of two registered agents it names
C9_Witness ==
    /\ aret.op = "sendMessage"
    /\ aret.a # NoAgent
    /\ AgentId(aret.a) = aret.msg.to
    /\ message_queue_[aret.a] = <<aret.msg>>
    /\ \E b \in Agents :
          /\ AgentId(b) # aret.msg.to
          /\ Registrations(b) > 0
          /\ message_queue_[b] = <<>>

\* C10 (as stated): broadcast(msg) appends exactly one copy of msg to the
\* queue of every registered agent whose id differs from msg.from and none
\* to the queue of any other agent.
C10_BroadcastOneCopyPerAgent ==
    aret.op = "broadcast"
    => \A a \in Agents :
          aret.cnt[a] = IF Registrations(a) > 0 /\ AgentId(a) # aret.msg.from
                        THEN 1 ELSE 0

\* C10 (amended): broadcast(msg) appends one copy of msg per registry entry
\* whose agent's id differs from msg.from, so an agent registered k times
\* receives k copies; agents whose id equals msg.from and unregistered
\* agents receive none.
C10_BroadcastOneCopyPerEntry ==
    aret.op = "broadcast"
    => \A a \in Agents :
          /\ aret.cnt[a] = IF AgentId(a) # aret.msg.from
                           THEN Registrations(a) ELSE 0
          /\ Cardinality({i \in 1..Len(received[a]) :
                             received[a][i] = aret.msg}) >= aret.cnt[a]

\* a broadcast reached an agent registered twice and skipped none
C10_Witness ==
    /\ aret.op = "broadcast"
    /\ \E a \in Agents :
          /\ Registrations(a) = 2
          /\ aret.cnt[a] = 2
          /\ message_queue_[a] = <<aret.msg, aret.msg>>

\* ------------------------------------------------------ Agent cycle claims
\* thread t takes a step out of the position `label`
Leaves(t, label) == apc[t] = label /\ apc'[t] # label

\* a pass of runCycle returned in the last step without an exception
PassReturned == aret.op = "runCycle" /\ aret.err = ""

\* C11: one cycle() sets THINKING and then invokes think once, sets ACTING
\* and then invokes act once, and sets IDLE as it returns having invoked
\* think and act exactly once each in that order; the callbacks themselves
\* do not change the state; a pass over a registry of one entry cycles the
\* agent at most once, so the two counters are both 1 when it was cycled.
C11_CycleThinkThenAct ==
    [][\A t \in AllThreads :
          LET a == aframe[t].a IN
          /\ Leaves(t, "cycle_thinking") =>
                /\ apc'[t] = "cycle_think"
                /\ state_'[a] = "THINKING"
                /\ aframe'[t].log = <<>>
          /\ Leaves(t, "cycle_think") =>
                /\ apc'[t] = "cycle_acting"
                /\ state_' = state_
                /\ aframe'[t].log = <<"think">>
          /\ Leaves(t, "cycle_acting") =>
                /\ apc'[t] = "cycle_act"
                /\ state_'[a] = "ACTING"
                /\ aframe'[t].log = <<"think">>
          /\ Leaves(t, "cycle_act") =>
                /\ state_' = state_
                /\ aframe'[t].log = <<"think", "act">>
          /\ Leaves(t, "cycle_idle") =>
                /\ state_'[a] = "IDLE"
                /\ aret' = [NoARet EXCEPT !.op = "cycle", !.t = t, !.a = a,
                                          !.log = <<"think", "act">>]
          /\ (Leaves(t, "rc_loop") /\ apc'[t] \in {"idle", "seq_loop"}
                /\ Len(agents_) = 1) =>
                /\ aret'.op = "runCycle"
                /\ aret'.cnt[agents_[1]] <= 1
                /\ aret'.cnt[agents_[1]] = 1 <=>
                      aframe[t].cnt[agents_[1]] = 1
      ]_vars

\* a pass over one registered agent returned having cycled it once
C11_Witness ==
    /\ PassReturned
    /\ Len(agents_) = 1
    /\ aret.cnt[agents_[1]] = 1
    /\ state_[agents_[1]] = "IDLE"

C13_FourStatesOnlyBySetState ==
    [][\A a \in Agents :
          (/\ state_[a] \in {"LEARNING", "COMMUNICATING", "SUSPENDED",
                             "TERMINATED"}
           /\ state_'[a] # state_[a]) => apc' = apc
      ]_vars

\* C14: a pass whose act callback calls sendMessage is neither blocked for
\* ever in that call nor ended by an exception from it.
C14_PassWithSendingCallbackReturns ==
    /\ \A t \in AllThreads : apc[t] # "cb_deadlock"
    /\ aret.err # "resource_deadlock_would_occur"

\* ------------------------------------------------- start and stop claims
\* the units that exist: spawned and not yet destroyed by stop()
Spawned == {u \in Units : apc[u] # "unspawned"}

\* unit u runs the loop of the SEQUENTIAL strategy
IsSequentialUnit(u) ==
    \/ apc[u] \in {"seq_loop", "seq_runCycle"}
    \/ aframe[u].ctx = "runCycle"

\* C15: every unit that exists is listed in agent_threads_ and units are
\* created by start() only; the step in which stop() returns leaves the
\* running flag false, agent_threads_ empty and no unit in existence, so no
\* callback is executing then and none is started until the next start().
C15_StopJoinsEveryUnit ==
    /\ [](\A u \in Spawned :
             \E i \in 1..Len(agent_threads_) : agent_threads_[i] = u)
    /\ [][/\ Leaves(Owner, "stop_join") =>
                /\ running_' = FALSE
                /\ agent_threads_' = <<>>
                /\ \A u \in Units : apc'[u] = "unspawned"
          /\ \A u \in Units :
                (apc[u] = "unspawned" /\ apc'[u] # "unspawned") =>
                    apc[Owner] \in {"start_parallel", "start_sequential"}
         ]_vars

\* stop() has just returned after joining at least one unit
C15_Witness ==
    /\ aret.op = "stop"
    /\ aret.b
    /\ ~running_
    /\ agent_threads_ = <<>>

\* a unit dereferenced a null agent or let an exception escape: the process
\* is terminated
Faulted == \E u \in Units : apc[u] = "fault"

\* C16: a stop() that has been called returns, as long as the process lives.
C16_StopReturns ==
    (apc[Owner] = "stop_join") ~> (apc[Owner] = "idle" \/ Faulted)

\* C17: when a start() under PARALLEL that found the orchestrator not
\* running returns, the units are one per agent registered when it began,
\* in registry order; a start() that finds it running and a registerAgent
\* leave the units as they are.
C17_OneUnitPerRegisteredAgent ==
    [][/\ Leaves(Owner, "start_parallel") =>
             /\ Len(agent_threads_) = Len(aframe[Owner].snap)
             /\ \A j \in 1..Len(agent_threads_) :
                   aframe[agent_threads_[j]].a = aframe[Owner].snap[j]
       /\ (apc[Owner] = "idle" /\ running_ /\ aret'.op = "start") =>
             agent_threads_' = agent_threads_
       /\ agents_' # agents_ => agent_threads_' = agent_threads_
      ]_vars

\* agent a is scheduled: the orchestrator is running, the agent is not held
\* back by SUSPENDED or TERMINATED, none of its own callbacks is stuck, and
\* it has a PARALLEL unit or is registered while the SEQUENTIAL unit runs
Scheduled(a) ==
    /\ running_
    /\ ~Faulted
    /\ state_[a] \notin {"SUSPENDED", "TERMINATED"}
    /\ \A t \in AllThreads : apc[t] = "cb_deadlock" => aframe[t].a # a
    /\ \E u \in Spawned :
          \/ aframe[u].ctx = "parallel" /\ aframe[u].a = a
          \/ /\ IsSequentialUnit(u)
             /\ \E i \in 1..Len(agents_) : agents_[i] = a

\* C18: an agent that stays scheduled from some point on completes a
\* cycle() again and again.
C18_ScheduledAgentCycledForever ==
    \A a \in Agents :
        <>[]Scheduled(a) => []<>(aret.op = "cycle" /\ aret.a = a)

\* C19: a thread whose next step reads or writes agents_ inside a loop
\* (broadcast, runCycle, the range-for of startParallel) holds the registry
\* lock.
C19_RegistryAccessUnderLock ==
    \A t \in AllThreads :
        apc[t] \in {"broadcast", "rc_loop", "start_parallel"} => reg_mutex = t

\* ---------------------------------------------------- Fusion Facade claims
\* a float lies in [0, 1]
InUnitInterval(x) == ~x.nan /\ 0 <= x.v /\ x.v <= One.v

\* C20: every value stored in the relevance table and every value
\* getRelevance returns lies in [0, 1].
C20_RelevanceInUnitInterval ==
    /\ \A h \in DOMAIN relevance_scores_ : InUnitInterval(relevance_scores_[h])
    /\ rret.op = "getRelevance" => InUnitInterval(rret.v)

\* C21: updateRelevance(h, delta) changes the attention table in one case
\* only: with delta > 0 and an attention entry for h it sets that entry's
\* sti to min(1, sti + 0.5 * delta), sti being the entry's value, and leaves
\* lti, vlti and every other entry as they are; in every other case the table
\* is left unchanged.
C21_UpdateRelevanceAttentionEffect ==
    [][\A t \in Threads :
          /\ (rpc[t] = "idle" /\ rpc'[t] = "ur_attention")
                 => attention_bank_' = attention_bank_
          /\ (rpc[t] = "ur_attention" /\ rpc'[t] # "ur_attention")
                 => attention_bank_' = attention_bank_
          /\ (rpc[t] = "ur_store" /\ rpc'[t] = "idle")
                 => attention_bank_' =
                        [attention_bank_ EXCEPT ![rframe[t].h].sti =
                            FMin(One, FAdd(@, FHalf(rframe[t].delta)))]]_vars

\* number of places of the outgoing list out that hold x
Occurrences(out, x) == Cardinality({i \in 1..Len(out) : out[i] = x})

\* the Links of the store whose sti exceeded 0.7 in the table bank
PropagatingLinks(bank) ==
    {l \in DOMAIN bank \cap DOMAIN atoms_ :
        /\ atoms_[l].kind = "Link"
        /\ ~bank[l].sti.nan
        /\ bank[l].sti.v > 28}

\* number of places, over the outgoing lists of the Links in links, that
\* hold x
RECURSIVE Raises(_, _)
Raises(links, x) ==
    IF links = {} THEN 0
    ELSE LET l == CHOOSE m \in links : TRUE
         IN Occurrences(atoms_[l].out, x) + Raises(links \ {l}, x)

\* the sti of x after n additions of 0.1 to the value it had in bank, each
\* capped at 1.0 (a missing entry counts from 0)
RaisedSti(bank, x, n) ==
    LET base == IF x \in DOMAIN bank THEN bank[x].sti.v ELSE 0
    IN IF n = 0 THEN base
       ELSE IF base + 4 * n > 40 THEN 40 ELSE base + 4 * n

\* Link l with the outgoing list {a, b}, sti(l) = 0.8 and sti(a) = sti(b) =
\* s in bank, and no other handle above 0.7
SpreadScenario(bank, l, a, b, s) ==
    /\ l \in DOMAIN atoms_ /\ atoms_[l].kind = "Link"
    /\ atoms_[l].out = <<a, b>> /\ a # b
    /\ {l, a, b} \subseteq DOMAIN bank
    /\ bank[l].sti = F(32) /\ bank[a].sti = F(s) /\ bank[b].sti = F(s)
    /\ \A h \in DOMAIN bank \ {l} : bank[h].sti.v <= 28

\* C22: a spreadAttention() call by a single caller adds 0.1, capped at 1.0,
\* to the sti of a target once per occurrence of the target in the outgoing
\* list of a Link whose sti exceeded 0.7 before the call, and changes nothing
\* else; with Link L at 0.8 and outgoing {A, B} at 0.2 the first call leaves
\* A and B at 0.3 and L at 0.8, and a second call leaves A and B at 0.4.
C22_SpreadAddsTenthPerOccurrence ==
    rret.op = "spreadAttention" =>
        LET before == rret.snap
            links == PropagatingLinks(before)
        IN
        /\ DOMAIN attention_bank_ =
               DOMAIN before \cup {x \in AtomHandles : Raises(links, x) > 0}
        /\ \A x \in DOMAIN attention_bank_ :
               /\ attention_bank_[x].sti =
                      F(RaisedSti(before, x, Raises(links, x)))
               /\ x \in DOMAIN before =>
                      /\ attention_bank_[x].lti = before[x].lti
                      /\ attention_bank_[x].vlti = before[x].vlti
        /\ \A l, a, b \in AtomHandles :
               /\ SpreadScenario(before, l, a, b, 8) =>
                      /\ attention_bank_[a].sti = F(12)
                      /\ attention_bank_[b].sti = F(12)
                      /\ attention_bank_[l].sti = F(32)
               /\ SpreadScenario(before, l, a, b, 12) =>
                      /\ attention_bank_[a].sti = F(16)
                      /\ attention_bank_[b].sti = F(16)
                      /\ attention_bank_[l].sti = F(32)

\* a second call has returned from the scenario of C22
C22_Witness ==
    /\ rret.op = "spreadAttention"
    /\ \E l, a, b \in AtomHandles :
           /\ SpreadScenario(rret.snap, l, a, b, 12)
           /\ attention_bank_[a].sti = F(16)

\* thread t is inside spreadAttention
InSpread(t) == rpc[t] \in {"sa_loop", "sa_getAtom"}

\* C23: spreadAttention is one hop per call: a step of the call changes the
\* attention table only while it handles a Link whose sti exceeded 0.7 in the
\* table the call started from, and then it raises exactly the atoms of that
\* Link's outgoing list; a Node above 0.7, and an atom that rose above 0.7
\* during the call, change no entry.
C23_SpreadIsOneHop ==
    [][\A t \in Threads :
          (InSpread(t) /\ attention_bank_' # attention_bank_) =>
              LET l == rframe[t].h
                  before == rframe[t].snap
              IN /\ l \in PropagatingLinks(before)
                 /\ \A x \in DOMAIN attention_bank_' :
                        attention_bank_'[x].sti =
                            F(RaisedSti(attention_bank_, x,
                                        Occurrences(atoms_[l].out, x)))]_vars

\* a call has returned during which a Link with a non-empty outgoing list rose
\* above 0.7, while a Node was above 0.7 from the start
C23_Witness ==
    /\ rret.op = "spreadAttention"
    /\ \E l \in DOMAIN atoms_ \cap DOMAIN rret.snap :
           /\ atoms_[l].kind = "Link" /\ atoms_[l].out # <<>>
           /\ rret.snap[l].sti.v <= 28
           /\ attention_bank_[l].sti.v > 28
    /\ \E n \in DOMAIN atoms_ \cap DOMAIN rret.snap :
           /\ atoms_[n].kind = "Node"
           /\ rret.snap[n].sti.v > 28

\* the locks thread t holds: the store mutex, relevance_mutex_,
\* attention_mutex_
LocksHeld(t) ==
    (IF mutex_ = t THEN {"store"} ELSE {})
        \cup (IF relevance_mutex_ = t THEN {"relevance"} ELSE {})
        \cup (IF attention_mutex_ = t THEN {"attention"} ELSE {})

\* C24, as the spec states it: in every reachable state each thread holds at
\* most one of the three locks.
C24_AtMostOneLock ==
    \A t \in Threads : Cardinality(LocksHeld(t)) <= 1

\* C24, amended: a thread holds two of the three locks only inside
\* spreadAttention, where it holds the attention lock and, during getAtom,
\* the store lock; the relevance lock is never held together with another
\* lock, and no thread holds all three.
C24_TwoLocksOnlyInSpread ==
    \A t \in Threads :
        \/ Cardinality(LocksHeld(t)) <= 1
        \/ /\ rpc[t] = "sa_getAtom"
           /\ LocksHeld(t) = {"attention", "store"}

\* a thread inside spreadAttention's getAtom holds both locks
C24_Witness ==
    \E t \in Threads :
        /\ rpc[t] = "sa_getAtom"
        /\ LocksHeld(t) = {"attention", "store"}

\* thread t is at a read or write of attention_bank_ that is not a whole
\* lock_guard section of its own: inside spreadAttention, or at the find and
\* the sti update of updateRelevance
AtAttentionAccess(t) ==
    \/ InSpread(t)
    \/ rpc[t] = "ur_attention" /\ FLess(Zero, rframe[t].delta)
    \/ rpc[t] = "ur_store"

\* thread t is inside updateRelevance, which holds a reference into
\* relevance_scores_
AtRelevanceAccess(t) == rpc[t] \in {"ur_attention", "ur_store"}

\* C25: every read or write of the attention table is performed while the
\* attention lock is held by the accessing thread, and every read or write of
\* the relevance table while the relevance lock is held by it.
C25_TablesAccessedUnderOwnLock ==
    \A t \in Threads :
        /\ AtAttentionAccess(t) => attention_mutex_ = t
        /\ AtRelevanceAccess(t) => relevance_mutex_ = t

\* C26: addConcept(name, embedding), called by a single caller, returns a
\* Node called name (created or reused) whose relevance entry is 0.5 and whose
\* attention entry is {0.5, 0.5, 0.5} when the call returns; the call appends
\* exactly one entry to the Embedding Space when the embedding is non-empty
\* and of the configured length 2, and none otherwise; it raises no error.
C26_AddConceptInitialises ==
    [][\A t \in Threads :
          /\ (rpc[t] = "ac_attention" /\ rpc'[t] = "idle") =>
                 LET h == rret'.h IN
                 /\ rret'.op = "addConcept"
                 /\ h \in DOMAIN atoms_'
                 /\ atoms_'[h].kind = "Node"
                 /\ atoms_'[h].name = rframe[t].name
                 /\ h \in DOMAIN relevance_scores_'
                 /\ relevance_scores_'[h] = F(20)
                 /\ h \in DOMAIN attention_bank_'
                 /\ attention_bank_'[h] =
                        [sti |-> F(20), lti |-> F(20), vlti |-> F(20)]
          /\ (rpc[t] = "ac_addNode" /\ rpc'[t] # "ac_addNode") =>
                 /\ rpc'[t] = "ac_relevance"
                 /\ embeddings_' =
                        IF Len(rframe[t].emb) = 2
                        THEN Append(embeddings_, [id |-> rframe[t].name,
                                                  emb |-> rframe[t].emb])
                        ELSE embeddings_
          /\ (rpc[t] \in {"idle", "ac_relevance", "ac_attention"}
                  /\ rpc'[t] # rpc[t]) => embeddings_' = embeddings_
          /\ rret'.op # "runtime_error"]_vars

\* addConcept has returned the reused Node after adding a second vector
\* under its name
C26_Witness ==
    /\ rret.op = "addConcept"
    /\ Len(issued) = 1
    /\ Len(embeddings_) = 2
    /\ rret.h \in DOMAIN atoms_
    /\ relevance_scores_[rret.h] = Half

\* ---------------------------------------------- Embedding Space claims
\* some entry of the Embedding Space is stored under id
HasEmbedding(id) == \E i \in 1..Len(embeddings_) : embeddings_[i].id = id

Qualifying(query, threshold) ==
    {i \in 1..Len(embeddings_) :
        ~SimLess(cosineSimilarity(query, embeddings_[i].emb), threshold)}

\* C28: findNearest(query, k, threshold) returns a list that has at most k
\* entries, is sorted by non-increasing similarity, contains no entry with
\* similarity below threshold, and holds the k highest-similarity stored
\* entries at or above threshold: its entries are distinct stored entries
\* with their similarities, as many as k allows, and no stored entry left out
\* has a higher similarity than a returned one.
C28_FindNearestTopK ==
    (rret.op = "findNearest" /\ rret.err = "none") =>
        LET query == rret.args[1]
            k == rret.args[2]
            threshold == rret.args[3]
            res == rret.res
            n == Len(res)
            simOf(i) == cosineSimilarity(query, embeddings_[i].emb)
            qualifying == Qualifying(query, threshold)
        IN
        /\ n <= k
        /\ \A i, j \in 1..n : i < j => ~SimLess(res[i].sim, res[j].sim)
        /\ \A i \in 1..n : ~SimLess(res[i].sim, threshold)
        /\ n = IF Cardinality(qualifying) < k THEN Cardinality(qualifying)
               ELSE k
        /\ \E f \in [1..n -> qualifying] :
               /\ \A i, j \in 1..n : i # j => f[i] # f[j]
               /\ \A i \in 1..n :
                      /\ res[i].id = embeddings_[f[i]].id
                      /\ res[i].sim = simOf(f[i])
               /\ \A m \in qualifying \ {f[i] : i \in 1..n} :
                      \A i \in 1..n : ~SimLess(res[i].sim, simOf(m))

\* a search over three stored entries of different similarity has returned
\* the best two in order and left the third out
C28_Witness ==
    /\ rret.op = "findNearest" /\ rret.err = "none"
    /\ rret.args[2] = 2
    /\ Cardinality(Qualifying(rret.args[1], rret.args[3])) = 3
    /\ Len(rret.res) = 2
    /\ SimLess(rret.res[2].sim, rret.res[1].sim)
    /\ \E m \in 1..Len(embeddings_) :
           SimLess(cosineSimilarity(rret.args[1], embeddings_[m].emb),
                   rret.res[2].sim)

\* every component of the vector is 0
ZeroNorm(v) == \A i \in 1..Len(v) : v[i] = 0

\* C29: a dimension mismatch is an error in the Embedding Space and a zero
\* score in the store: findNearest with a query of a length other than the
\* space's 2 fails and returns nothing, addEmbedding with a vector of another
\* length fails and leaves the space unchanged, and querySimilar never fails
\* and gives every Node carrying an embedding whose length differs from the
\* query's, or with a zero-norm vector on either side, the similarity 0.0
\* exactly (so such a Node is returned whenever 0.0 >= threshold and k
\* allows). A step that leaves spc unchanged is a step of one of the three
\* searches and insertions.
C29_MismatchErrorOrZero ==
    [][spc' = spc =>
       /\ (rret'.op = "findNearest" /\ Len(rret'.args[1]) # 2) =>
              /\ rret'.err = "runtime_error"
              /\ rret'.res = <<>>
              /\ embeddings_' = embeddings_
       /\ (rret'.op = "addEmbedding" /\ Len(rret'.args[2]) # 2) =>
              /\ rret'.err = "runtime_error"
              /\ embeddings_' = embeddings_
       /\ rret'.op = "querySimilar" =>
              LET query == rret'.args[1]
                  k == rret'.args[2]
                  threshold == rret'.args[3]
                  res == rret'.res
                  scoredZero ==
                      {h \in DOMAIN atoms_ :
                          /\ atoms_[h].kind = "Node"
                          /\ atoms_[h].emb # <<>>
                          /\ \/ Len(atoms_[h].emb) # Len(query)
                             \/ ZeroNorm(atoms_[h].emb)
                             \/ ZeroNorm(query)}
              IN
              /\ rret'.err = "none"
              /\ \A i \in 1..Len(res) :
                     res[i].h \in scoredZero => res[i].sim = Sim(0, 1)
              /\ (~SimLess(Sim(0, 1), threshold) /\ Len(res) < k) =>
                     scoredZero \subseteq {res[i].h : i \in 1..Len(res)}]_vars

\* querySimilar has returned a Node whose embedding has another length than
\* the query, with similarity 0.0, while the space holds a vector
C29_Witness ==
    /\ rret.op = "querySimilar"
    /\ embeddings_ # <<>>
    /\ \E i \in 1..Len(rret.res) :
           /\ Len(atoms_[rret.res[i].h].emb) # Len(rret.args[1])
           /\ rret.res[i].sim = Sim(0, 1)

\* ------------------------------------------------ Facade creation claims
\* C30, as the spec states it: when addRelation returns a new Link, no
\* attention entry exists under the Link's handle and its relevance is 0.5,
\* whatever Facade and store operations came before, a store-wide clear()
\* and new atoms included.
C30_NewLinkHasNoAttentionEntry ==
    rret.op = "addRelation" =>
        /\ rret.h \notin DOMAIN attention_bank_
        /\ rret.h \in DOMAIN relevance_scores_
        /\ relevance_scores_[rret.h] = F(20)

\* C30, amended: addRelation never writes the attention table, and with a
\* single caller the new Link's relevance is 0.5 when the call returns; the
\* Link has an attention entry exactly when the table already held one under
\* its handle, as it does after a clear() once the handle of an earlier atom
\* is issued again.
C30_AddRelationLeavesAttention ==
    [][\A t \in Threads :
          (rpc[t] = "ar_addLink" \/ rpc'[t] = "ar_addLink") =>
              /\ attention_bank_' = attention_bank_
              /\ rpc'[t] = "idle" =>
                     /\ rret'.op = "addRelation"
                     /\ rret'.h \in DOMAIN atoms_'
                     /\ atoms_'[rret'.h].kind = "Link"
                     /\ rret'.h \in DOMAIN relevance_scores_'
                     /\ relevance_scores_'[rret'.h] = F(20)]_vars

\* after a clear(), addRelation has returned a Link under a handle that
\* carries the attention entry of an earlier atom, with sti 0.8
C30_Witness ==
    /\ rret.op = "addRelation"
    /\ epoch > 0
    /\ rret.h \in DOMAIN attention_bank_
    /\ attention_bank_[rret.h].sti = F(32)
    /\ rret.h \in DOMAIN atoms_
    /\ atoms_[rret.h].kind = "Link"
    /\ \E i \in 1..Len(issued) : issued[i].h = rret.h /\ issued[i].ep < epoch

\* ------------------------------------------------ Facade read-back claims
\* C31: updateRelevance(h, delta) applies delta to the value getRelevance
\* reports: when getRelevance(h) reports r before the call, it reports
\* clamp(r + delta, 0, 1) once the call has written the relevance table, for
\* a handle never written before as well.
C31_UpdateAppliesToReportedValue ==
    [][\A t \in Threads :
          (rpc[t] = "idle" /\ rpc'[t] = "ur_attention") =>
              LET h == rframe'[t].h
                  delta == rframe'[t].delta
                  before == IF h \in DOMAIN relevance_scores_
                            THEN relevance_scores_[h] ELSE Half
                  after == IF h \in DOMAIN relevance_scores_'
                           THEN relevance_scores_'[h] ELSE Half
              IN after = clamp(FAdd(before, delta), Zero, One)]_vars

\* C32: as getAttention reports it, a spreadAttention() call by a single
\* caller only raises sti: for every handle the sti reported after the call
\* is at least the sti reported before it, and lti and vlti are reported
\* unchanged, for a target without an attention entry as well.
C32_SpreadOnlyRaisesReportedSti ==
    rret.op = "spreadAttention" =>
        \A h \in AtomHandles :
            LET before == IF h \in DOMAIN rret.snap THEN rret.snap[h]
                          ELSE NewAttention
                after == getAttentionResult(h)
            IN /\ ~FLess(after.sti, before.sti)
               /\ after.lti = before.lti
               /\ after.vlti = before.vlti

\* ------------------------------------------------ orchestration claims
\* the labels of a thread that has executed the first statement of
\* Agent::cycle and not yet the last
CycleLabels == {"cycle_think", "cycle_acting", "cycle_act", "cycle_idle",
                "cb_getAgent", "cb_receive", "cb_deadlock"}

\* thread t is executing cycle() of agent a
InCycle(t, a) == apc[t] \in CycleLabels /\ aframe[t].a = a

\* C33: at no time are two executions of cycle() of the same agent in
\* progress, whatever the interleaving of start, stop, runCycle,
\* registerAgent and unregisterAgent.
C33_OneCycleAtATime ==
    \A a \in Agents :
        Cardinality({t \in AllThreads : InCycle(t, a)}) <= 1

\* the states a caller sets to take an agent out of the cycling
Halted == {"SUSPENDED", "TERMINATED"}

\* C34: once setState(SUSPENDED) or setState(TERMINATED) has returned for an
\* agent, no step of a cycle() changes the agent's state (it stays until the
\* caller's next setState) and no think or act callback of the agent starts.
C34_HaltedAgentStaysHalted ==
    [][\A t \in AllThreads :
          LET a == aframe[t].a IN
          /\ (apc[t] \in {"cycle_thinking", "cycle_acting", "cycle_idle"}
                 /\ apc'[t] # apc[t]) => state_[a] \notin Halted
          /\ (apc[t] \in {"cycle_think", "cycle_act"} /\ apc'[t] # apc[t])
                 => state_[a] \notin Halted]_vars

\* C35: once unregisterAgent(id) has returned, and until the id is registered
\* again, the orchestrator starts no cycle() on an agent with that id,
\* getAgent(id) finds no agent and sendMessage to the id is dropped: a
\* cycle() starts only on an agent the registry holds.
C35_UnregisteredAgentNeverCycled ==
    [][\A t \in AllThreads :
          (apc[t] \in {"par_check2", "rc_check2"}
              /\ apc'[t] = "cycle_thinking") =>
                  /\ Registered(AgentId(aframe[t].a))
                  /\ getAgentResult(AgentId(aframe[t].a)) # NoAgent]_vars

IdRegistrations(agent_id) ==
    Cardinality({i \in 1..Len(agents_) : AgentId(agents_[i]) = agent_id})

C37_ProcessMessagesNeverFails ==
    aret.op = "processMessages" =>
        /\ aret.err = ""
        /\ \A i \in 1..Len(aret.log) :
               \E j \in 1..Len(taken[aret.a]) : taken[aret.a][j] = aret.log[i]
        /\ Len(taken[aret.a]) <= Len(received[aret.a])
        /\ taken[aret.a] = SubSeq(received[aret.a], 1, Len(taken[aret.a]))

\* ---- lock acquisition across the store, the side tables and the orchestrator

\* the narrow inputs of the callers that contend for the locks
LockNames == {"x"}
LockEmbeddings == {<<1, 0>>}
LockHandles == {1}
LockRelevance == {F(60)}
LockDeltas == {F(20)}
LockAttention == {[sti |-> F(32), lti |-> F(24), vlti |-> F(16)]}
LockQueries == {<<1, 0>>}

\* no caller has used the store or the side tables yet
KnowledgeUntouched ==
    /\ issued = <<>>
    /\ sret = NoRet
    /\ rret = NoRRet
    /\ \A t \in Threads : spc[t] = "idle" /\ rpc[t] = "idle"

\* no caller has used the orchestrator yet
OrchestratorUntouched ==
    /\ agents_ = <<>>
    /\ aret = NoARet
    /\ \A t \in Threads : apc[t] = "idle"

\* the steps of a caller. The callers work on the knowledge side (the store,
\* its atoms and the side tables) or on the orchestrator side of one reactor:
\* no operation takes a lock of both sides. A store operation is called by a
\* thread that is not inside a Facade operation; the callbacks of the agents
\* do not re-enter the orchestrator; the agents' queues are read meanwhile.
LockStep(t) ==
    \/ /\ OrchestratorUntouched /\ rpc[t] = "idle"
       /\ addNodeCallWith(t, LockNames, LockEmbeddings)
    \/ OrchestratorUntouched /\ addNode(t)
    \/ OrchestratorUntouched /\ rpc[t] = "idle" /\ addLinkCallWith(t, LockNames)
    \/ OrchestratorUntouched /\ addLink(t)
    \/ OrchestratorUntouched /\ rpc[t] = "idle" /\ getAtomCallOn(t, LockHandles)
    \/ OrchestratorUntouched /\ getAtom(t)
    \/ OrchestratorUntouched /\ rpc[t] = "idle" /\ clearCall(t)
    \/ OrchestratorUntouched /\ clear(t)
    \/ OrchestratorUntouched /\ querySimilarWith(t, LockQueries, {1}, {SimZero})
    \/ OrchestratorUntouched /\ setRelevanceWith(t, LockHandles, LockRelevance)
    \/ OrchestratorUntouched /\ updateRelevanceWith(t, LockHandles, LockDeltas)
    \/ OrchestratorUntouched /\ setAttentionWith(t, LockHandles, LockAttention)
    \/ OrchestratorUntouched /\ spreadAttention(t)
    \/ OrchestratorUntouched /\ getName(t)
    \/ OrchestratorUntouched /\ getOutgoing(t)
    \/ OrchestratorUntouched /\ toStringCall(t)
    \/ OrchestratorUntouched /\ toString(t)
    \/ KnowledgeUntouched /\ registerAgent(t)
    \/ KnowledgeUntouched /\ sendMessage(t)
    \/ KnowledgeUntouched /\ broadcast(t)
    \/ KnowledgeUntouched /\ runCycle(t)
    \/ KnowledgeUntouched /\ cycle(t)
    \/ KnowledgeUntouched /\ think(t)
    \/ KnowledgeUntouched /\ actQuiet(t)
    \/ KnowledgeUntouched /\ getNextMessage(t)

DNext == \E t \in Threads : LockStep(t)

SpecLocks == Init /\ [][DNext]_vars

\* thread t is inside a call
InCall(t) == spc[t] # "idle" \/ rpc[t] # "idle" \/ apc[t] # "idle"

\* the atom object whose mutex_ thread t is about to take while it holds
\* another lock (0: none): the Link of spreadAttention's getOutgoing(), the
\* next outgoing_[i]->getName() of Link::toString()
AtomWanted(t) ==
    IF rpc[t] = "sa_getAtom"
    THEN IF rframe[t].h \in DOMAIN atoms_ /\ atoms_[rframe[t].h].kind = "Link"
         THEN atoms_[rframe[t].h].uid
         ELSE 0
    ELSE IF spc[t] = "toString" /\ sarg[t].out # <<>>
         THEN Head(sarg[t].out)
         ELSE 0

\* the agent whose mutex_ thread t is about to take inside an orchestrator
\* operation (NoAgent: none)
AgentWanted(t) ==
    IF apc[t] \in {"rc_loop", "broadcast"}
    THEN IF aframe[t].i <= Len(agents_) THEN agents_[aframe[t].i] ELSE NoAgent
    ELSE IF apc[t] \in {"send_receive", "rc_check2", "cycle_thinking",
                        "cycle_acting", "cycle_idle"}
         THEN aframe[t].a
         ELSE NoAgent

\* thread t, inside a call, waits for a lock that thread u holds
WaitsFor(t, u) ==
    \/ rpc[t] = "sa_loop" /\ rframe[t].high # {} /\ mutex_ = u
    \/ AtomWanted(t) # 0 /\ atom_mutex[AtomWanted(t)] = u
    \/ AgentWanted(t) # NoAgent /\ agent_mutex[AgentWanted(t)] = u

\* the threads reached from the threads S along at most n waits
RECURSIVE WaitChain(_, _)
WaitChain(S, n) ==
    IF n = 0 THEN S
    ELSE WaitChain(S \cup {u \in Threads : \E s \in S : WaitsFor(s, u)}, n - 1)

\* C38: no cyclic wait among the store lock, the per-atom locks, the relevance
\* lock, the attention lock, the registry lock and the per-agent locks is
\* reachable: no thread waits, directly or through other threads, for a lock
\* it holds itself, and a thread inside a call that waits for nobody can take
\* its next step, so every call can run to its return.
C38_NoCyclicWait ==
    \A t \in Threads :
        /\ t \notin WaitChain({u \in Threads : WaitsFor(t, u)}, NumThreads)
        /\ InCall(t) => (ENABLED LockStep(t)) \/ \E u \in Threads : WaitsFor(t, u)

\* a thread that holds a Link's mutex waits for the mutex of an atom that another
\* thread holds
C38_Witness ==
    \E t, u \in Threads :
        /\ t # u
        /\ WaitsFor(t, u)
        /\ \E a \in DOMAIN atom_mutex : atom_mutex[a] = t

GNext ==
    \/ addConceptUpTo(Caller, MaxConcepts, ConceptEmbeddings)
    \/ addNode(Caller)
    \/ findNearest(Caller)

\* one caller adds concepts and queries the Facade for similar ones
\* (querySimilar hands its query to EmbeddingSpace::findNearest)
SpecNames == Init /\ [][GNext]_vars

\* C39: the Facade's querySimilar never returns the same concept name twice:
\* each concept name has at most one entry in the Embedding Space, so the
\* embedding count never exceeds the number of Nodes in the store.
C39_OneEmbeddingPerName ==
    /\ \A i, j \in 1..Len(embeddings_) :
           embeddings_[i].id = embeddings_[j].id => i = j
    /\ Len(embeddings_) <=
           Cardinality({h \in DOMAIN atoms_ : atoms_[h].kind = "Node"})
    /\ rret.op = "findNearest" =>
           \A i, j \in 1..Len(rret.res) :
               rret.res[i].id = rret.res[j].id => i = j
====
